---------------------------- MODULE Spec2Model ----------------------------
(***************************************************************************)
(* CodeFlow Authenticator: Base32 codec, HOTP/TOTP engine, envelope        *)
(* encryption, encrypted account store, enrollment modal, App session and  *)
(* the useTotp hook, modelled as state machines.                           *)
(*                                                                         *)
(* Text is a sequence of one-character strings; bytes are sequences of     *)
(* integers in 0..255.  Every subsystem has its own variables and its own  *)
(* specification; a specification leaves the other subsystems' variables   *)
(* at their initial values.                                                *)
(***************************************************************************)
EXTENDS Integers, Sequences, FiniteSets, TLC

VARIABLES
    \* ---- Base32 codec driver (AddAccountModal.bytesToBase32, totpService.base32ToBytes)
    b32Bytes,       \* the byte sequence handed to bytesToBase32
    b32Text,        \* the Base32 text handed to base32ToBytes
    b32Decoded,     \* the outcome of base32ToBytes(b32Text)
    b32Phase,       \* "idle" | "encoded" | "decoded"
    \* ---- HOTP dynamic truncation driver (totpService.generateHOTP)
    hmacBytes,      \* the 20-byte HMAC-SHA1 digest
    hotpOut,        \* the outcome of the truncation of hmacBytes
    \* ---- AddAccountModal (component state and the calls it makes on its props)
    accountToVerify,    \* None or Some(account) pending verification
    modalError,         \* the error state: "" is null
    successMessage,     \* TRUE once a success message is set
    modalLast,          \* the last handler run: its input and the prop it called
    \* ---- cryptoService driver (deriveKey, encrypt, decrypt)
    cryptoPlain,        \* the plaintext handed to encrypt
    cryptoPassword,     \* the password of the key used by encrypt
    cryptoSalt,         \* the salt of both keys
    cryptoEnvelope,     \* what encrypt returned
    cryptoTry,          \* the password of the key used by decrypt
    cryptoOut,          \* the outcome of decrypt
    cryptoPhase,        \* "idle" | "encrypted" | "decrypted"
    \* ---- storageService
    localStorage,       \* storage key -> None or Some(text)
    saving,             \* the saveAccounts calls awaiting encrypt
    storeLast,          \* the last storageService call that returned
    storeWritten,       \* email -> None or Some of the last completed save
    \* ---- useTotp (one instance of the hook)
    totpNow,            \* Math.floor(Date.now() / 1000)
    totpSecret,         \* the secret prop: None before mount and after unmount
    totpPhase,          \* "init" | "rendered" (effect pending) | "mounted" | "unmounted"
    totpTimer,          \* None or Some of the running interval: its secret, its last firing
    totpCode,           \* the code state
    totpTimeLeft,       \* the timeLeft state
    totpCounter,        \* currentCounter.current: None is null
    totpUpdates,        \* the update() calls awaiting generateTOTP
    totpReported,       \* None or Some of the last {code, timeLeft} returned to the caller
    totpLast,           \* the last step of the hook
    \* ---- App (the component state and its handlers in flight)
    appMounted,         \* TRUE once the mount effect has run
    appAccounts,        \* the accounts state
    appMasterKey,       \* the masterKey state: None is null
    appCurrentUser,     \* the currentUser state: None is null
    appError,           \* the error state: "" is null
    appChangeOpen,      \* isChangePasswordModalOpen
    appChangeLoading,   \* isLoading of the mounted ChangePasswordModal
    appTasks,           \* the async handlers suspended at an await
    appLast,            \* the last handler step that ran
    usersLast,          \* the last storageService call on the user namespaces
    adminPanelOpen,     \* App: isAdminPanelOpen
    adminUsers,         \* AdminPanel: users
    adminSelected,      \* AdminPanel: selectedUser (the EditUserModal is open on it)
    adminEditLoading    \* EditUserModal: isLoading

b32Vars  == <<b32Bytes, b32Text, b32Decoded, b32Phase>>
hotpVars == <<hmacBytes, hotpOut>>
modalVars == <<accountToVerify, modalError, successMessage, modalLast>>
cryptoVars == <<cryptoPlain, cryptoPassword, cryptoSalt, cryptoEnvelope, cryptoTry,
                cryptoOut, cryptoPhase>>
storeVars == <<localStorage, saving, storeLast, storeWritten>>
totpVars == <<totpNow, totpSecret, totpPhase, totpTimer, totpCode, totpTimeLeft,
              totpCounter, totpUpdates, totpReported, totpLast>>
appVars  == <<appMounted, appAccounts, appMasterKey, appCurrentUser, appError,
              appChangeOpen, appChangeLoading, appTasks, appLast>>
usersVars == <<usersLast>>
adminVars == <<adminPanelOpen, adminUsers, adminSelected, adminEditLoading>>
vars     == <<b32Vars, hotpVars, modalVars, cryptoVars, storeVars, totpVars, appVars,
             usersVars, adminVars>>

(***************************************************************************)
(* Generic helpers                                                         *)
(***************************************************************************)
Pow2(n) == 2 ^ n

\* F applied to the value of v, computed once
With(v, F(_)) == CHOOSE r \in { F(w) : w \in {v} } : TRUE

\* all sequences over S of length 0..n
SeqsUpTo(S, n) == UNION {[1..k -> S] : k \in 0..n}

\* bit k (0 = most significant) of the w-bit value v: v.toString(2).padStart(w,'0')[k]
BitOf(v, w, k) == (v \div Pow2(w - 1 - k)) % 2

\* parseInt(chunk, 2) of a sequence of 0/1
RECURSIVE BitsToInt(_)
BitsToInt(bs) ==
    IF bs = <<>> THEN 0 ELSE 2 * BitsToInt(SubSeq(bs, 1, Len(bs) - 1)) + bs[Len(bs)]

(***************************************************************************)
(* Base32 codec                                                            *)
(***************************************************************************)
base32Chars ==
    << "A","B","C","D","E","F","G","H","I","J","K","L","M","N","O","P",
       "Q","R","S","T","U","V","W","X","Y","Z","2","3","4","5","6","7" >>

lowerChars ==
    << "a","b","c","d","e","f","g","h","i","j","k","l","m","n","o","p",
       "q","r","s","t","u","v","w","x","y","z" >>

\* String.prototype.toUpperCase on one character
toUpperCase(c) ==
    IF \E i \in 1..26 : lowerChars[i] = c
    THEN base32Chars[CHOOSE i \in 1..26 : lowerChars[i] = c]
    ELSE c

\* base32Chars.indexOf(char): 0-based, -1 when absent
indexOf(c) ==
    IF \E i \in 1..32 : base32Chars[i] = c
    THEN (CHOOSE i \in 1..32 : base32Chars[i] = c) - 1
    ELSE -1

\* .replace(/=+$/, ''): drop the maximal run of '=' at the end
RECURSIVE StripTrailingPad(_)
StripTrailingPad(t) ==
    IF t # <<>> /\ t[Len(t)] = "=" THEN StripTrailingPad(SubSeq(t, 1, Len(t) - 1)) ELSE t

\* bytes[i].toString(2).padStart(8,'0') joined over the bytes
BytesToBits(bytes) ==
    [i \in 1..(8 * Len(bytes)) |-> BitOf(bytes[((i - 1) \div 8) + 1], 8, (i - 1) % 8)]

\* AddAccountModal.bytesToBase32: one symbol per COMPLETE 5-bit chunk; a
\* trailing chunk of fewer than 5 bits emits nothing.
bytesToBase32Drop(bytes) ==
    LET bits == BytesToBits(bytes)
        n    == Len(bits) \div 5
    IN  [j \in 1..n |-> base32Chars[BitsToInt(SubSeq(bits, 5 * (j - 1) + 1, 5 * j)) + 1]]

bytesToBase32(bytes) == bytesToBase32Drop(bytes)

Ok(v)  == [ok |-> TRUE, val |-> v, err |-> ""]
Err(e) == [ok |-> FALSE, val |-> <<>>, err |-> e]

\* totpService.base32ToBytes
base32ToBytesMatchNull(base32) ==
    LET chars == StripTrailingPad([i \in 1..Len(base32) |-> toUpperCase(base32[i])])
        n     == Len(chars)
        bits  == [i \in 1..(5 * n) |-> BitOf(indexOf(chars[((i - 1) \div 5) + 1]), 5, (i - 1) % 5)]
        nb    == Len(bits) \div 8
    IN  IF \E i \in 1..n : indexOf(chars[i]) = -1
        THEN Err("Invalid base32 character")
        ELSE IF bits = <<>>
        THEN Err("TypeError")       \* ''.match(/.{1,8}/g) is null; null.map throws
        ELSE Ok([j \in 1..nb |-> BitsToInt(SubSeq(bits, 8 * (j - 1) + 1, 8 * j))])

base32ToBytes(base32) == base32ToBytesMatchNull(base32)

(***************************************************************************)
(* HOTP: counter encoding, HMAC stand-in, dynamic truncation               *)
(***************************************************************************)
digitChars == << "0","1","2","3","4","5","6","7","8","9" >>

\* Number.prototype.toString() of a non-negative integer
RECURSIVE NatToString(_)
NatToString(n) ==
    IF n < 10 THEN << digitChars[n + 1] >>
    ELSE Append(NatToString(n \div 10), digitChars[(n % 10) + 1])

\* Number.prototype.toString() of an integer
IntToString(n) == IF n < 0 THEN << "-" >> \o NatToString(-n) ELSE NatToString(n)

\* String.prototype.padStart(width, '0')
padStart(t, width) ==
    IF Len(t) >= width THEN t ELSE [i \in 1..(width - Len(t)) |-> "0"] \o t

\* the remainder operator of JavaScript: the sign follows the dividend
JsRem(a, m) == IF a >= 0 THEN a % m ELSE -((-a) % m)

IsDigit(c) == \E i \in 1..10 : digitChars[i] = c

\* the number a string of decimal digits denotes
RECURSIVE DecimalValue(_)
DecimalValue(t) ==
    IF t = <<>> THEN 0
    ELSE 10 * DecimalValue(SubSeq(t, 1, Len(t) - 1))
         + ((CHOOSE i \in 1..10 : digitChars[i] = t[Len(t)]) - 1)

\* hmacBytes[i] of a typed array, 0-based; an index outside the array reads
\* undefined, which the bitwise operators coerce to 0
ByteAt(h, i) == IF i >= 0 /\ i < Len(h) THEN h[i + 1] ELSE 0

\* generateHOTP line 38: hmacBytes[hmacBytes.length - 1] & 0x0f
TruncOffsetWide(h) == ByteAt(h, Len(h) - 1) % 32

TruncOffset(h) == ByteAt(h, Len(h) - 1) % 16

\* generateHOTP lines 39-43: the 31-bit big-endian word at the offset.  The
\* four fields occupy disjoint bits, so | is +; the top field is masked to 7
\* bits, so the int32 result is never negative.
TruncBinary(h, offset) ==
      (ByteAt(h, offset) % 128) * 16777216
    + (ByteAt(h, offset + 1) % 256) * 65536
    + (ByteAt(h, offset + 2) % 256) * 256
    + (ByteAt(h, offset + 3) % 256)

\* generateHOTP lines 45-47
OtpString(binary) == padStart(IntToString(JsRem(binary, 1000000)), 6)

\* generateHOTP lines 36-47 on a given digest: what it reads and returns
DynamicTruncation(h) ==
    LET offset == TruncOffset(h)
        binary == TruncBinary(h, offset)
    IN  [ ok     |-> TRUE,
          offset |-> offset,
          reads  |-> {offset, offset + 1, offset + 2, offset + 3},
          binary |-> binary,
          code   |-> OtpString(binary) ]

\* generateHOTP lines 17-25: the counter as 8 bytes big-endian, hi and lo
\* 32-bit halves written separately (the halves are computed in 16-bit steps
\* to stay inside the checker's integers)
CounterBytes(counter) ==
    LET hi == (counter \div 65536) \div 65536
        lo == ((counter \div 65536) % 65536) * 65536 + (counter % 65536)
        word(w) == << (w \div 16777216) % 256, (w \div 65536) % 256,
                      (w \div 256) % 256, w % 256 >>
    IN  word(hi) \o word(lo)

RECURSIVE WeightedSum(_, _)
WeightedSum(bs, w) ==
    IF bs = <<>> THEN 0
    ELSE (WeightedSum(SubSeq(bs, 1, Len(bs) - 1), w) * w + bs[Len(bs)] + 1) % 65521

\* crypto.subtle.sign('HMAC', key, buffer) with SHA-1: a deterministic
\* 20-byte digest of (key, message).  The primitive is external; this is a
\* stand-in that mixes every byte of both inputs.
HmacSha1(key, msg) ==
    LET seed == (WeightedSum(key, 31) * 7 + WeightedSum(msg, 37) * 11) % 65521
    IN  [i \in 1..20 |-> ((seed + 1) * (i + 2) + (seed \div 256) * i + 13 * i * i) % 256]

\* totpService.generateHOTP(secret, counter)
generateHOTP(secret, counter) ==
    LET decodedSecret == base32ToBytes(secret)
    IN  IF ~decodedSecret.ok THEN Err(decodedSecret.err)
        ELSE IF decodedSecret.val = <<>>
        THEN Err("DataError")       \* importKey rejects a zero-length HMAC key
        ELSE Ok(DynamicTruncation(HmacSha1(decodedSecret.val, CounterBytes(counter))).code)

(***************************************************************************)
(* Text helpers                                                            *)
(***************************************************************************)
None == <<>>
Some(x) == <<x>>

IsSpace(c) == c = " "

\* String.prototype.trim
RECURSIVE TrimLeft(_)
TrimLeft(t) == IF t # <<>> /\ IsSpace(t[1]) THEN TrimLeft(Tail(t)) ELSE t

RECURSIVE TrimRight(_)
TrimRight(t) ==
    IF t # <<>> /\ IsSpace(t[Len(t)]) THEN TrimRight(SubSeq(t, 1, Len(t) - 1)) ELSE t

Trim(t) == TrimRight(TrimLeft(t))

\* .replace(/\s/g, '')
RemoveWhitespace(t) == SelectSeq(t, LAMBDA c : ~IsSpace(c))

\* the index of the first occurrence of c in t, 0 when absent
FirstIndex(t, c) ==
    IF \E i \in 1..Len(t) : t[i] = c THEN CHOOSE i \in 1..Len(t) : t[i] = c /\ \A j \in 1..(i - 1) : t[j] # c
    ELSE 0

(***************************************************************************)
(* AddAccountModal handlers                                                *)
(***************************************************************************)
\* handleQrScan lines 112-116: one migration sub-message as an account
\* (param.secret absent decodes as the empty byte array)
MigrationAccount(param) ==
    [ secret   |-> bytesToBase32(param.secret),
      name     |-> param.name,
      issuer   |-> IF param.issuer # <<>> THEN param.issuer ELSE param.name,
      username |-> None,
      password |-> None ]

\* handleQrScan lines 139-159: issuer and name of a decoded otpauth label
\* and the issuer query parameter (None when absent)
LabelIssuerName(decodedLabel, issuerFromParams) ==
    LET colon == FirstIndex(decodedLabel, ":")
        labelIssuer == IF colon > 0 THEN Trim(SubSeq(decodedLabel, 1, colon - 1)) ELSE <<>>
        parsedName  == IF colon > 0
                       THEN Trim(SubSeq(decodedLabel, colon + 1, Len(decodedLabel)))
                       ELSE Trim(decodedLabel)
        issuer1 == IF issuerFromParams # None /\ issuerFromParams[1] # <<>>
                   THEN Trim(issuerFromParams[1]) ELSE labelIssuer
        issuer2 == IF issuer1 = <<>> /\ parsedName # <<>> THEN parsedName ELSE issuer1
    IN  [issuer |-> issuer2, name |-> parsedName]

\* handleQrScan (lines 82-177) on a scanned text, given as what its parts
\* decode to.  The result: the new accountToVerify, the error, and the call
\* made on onAddMultipleAccounts.
QrScanOutcome(in, pending) ==
    IF in.kind = "migration" THEN
        IF in.data = "missing"
        THEN [pending |-> pending, error |-> "no migration data", called |-> "none", arg |-> <<>>]
        ELSE IF in.data = "malformed"
        THEN [pending |-> pending, error |-> "decode failed", called |-> "none", arg |-> <<>>]
        ELSE IF Len(in.otpParameters) = 0
        THEN [pending |-> pending, error |-> "no account in migration", called |-> "none", arg |-> <<>>]
        ELSE [pending |-> pending, error |-> "",
              called |-> "multi",
              arg |-> [i \in 1..Len(in.otpParameters) |-> MigrationAccount(in.otpParameters[i])]]
    ELSE IF in.kind = "totp" THEN
        IF ~in.hasQuery
        THEN [pending |-> pending, error |-> "missing parameters", called |-> "none", arg |-> <<>>]
        ELSE IF in.secret = None \/ in.secret[1] = <<>>
        THEN [pending |-> pending, error |-> "missing secret", called |-> "none", arg |-> <<>>]
        ELSE IF ~in.labelOk
        THEN [pending |-> pending, error |-> "URIError", called |-> "none", arg |-> <<>>]
        ELSE LET p == LabelIssuerName(in.label, in.issuer)
             IN  [pending |-> Some([ issuer |-> p.issuer, name |-> p.name,
                                     secret |-> RemoveWhitespace(in.secret[1]),
                                     username |-> None, password |-> None ]),
                  error |-> "", called |-> "none", arg |-> <<>>]
    ELSE [pending |-> pending, error |-> "invalid QR code", called |-> "none", arg |-> <<>>]

(***************************************************************************)
(* Text encoding: TextEncoder, TextDecoder, hex                            *)
(***************************************************************************)
\* the characters of the model: printable ASCII in code order (U+0020..U+007E),
\* the grave accent under the name U+0060
asciiChars ==
    << " ", "!", "\"", "#", "$", "%", "&", "'", "(", ")", "*", "+", ",", "-", ".", "/",
       "0", "1", "2", "3", "4", "5", "6", "7", "8", "9", ":", ";", "<", "=", ">", "?",
       "@", "A", "B", "C", "D", "E", "F", "G", "H", "I", "J", "K", "L", "M", "N", "O",
       "P", "Q", "R", "S", "T", "U", "V", "W", "X", "Y", "Z", "[", "\\", "]", "^", "_",
       "U+0060", "a", "b", "c", "d", "e", "f", "g", "h", "i", "j", "k", "l", "m", "n", "o",
       "p", "q", "r", "s", "t", "u", "v", "w", "x", "y", "z", "{", "|", "}", "~" >>

\* and a few characters outside ASCII, named by their code point
otherChars == << "U+00E9", "U+20AC", "U+FEFF", "U+FFFD", "U+1F600" >>
otherCodes == << 233, 8364, 65279, 65533, 128512 >>

AllChars == {asciiChars[i] : i \in 1..Len(asciiChars)} \cup {otherChars[i] : i \in 1..Len(otherChars)}

CodePointTable ==
    [c \in AllChars |->
        IF \E i \in 1..Len(asciiChars) : asciiChars[i] = c
        THEN 31 + (CHOOSE i \in 1..Len(asciiChars) : asciiChars[i] = c)
        ELSE otherCodes[CHOOSE i \in 1..Len(otherChars) : otherChars[i] = c]]

\* String.prototype.codePointAt for one character
codePointAt(c) == CodePointTable[c]

\* String.fromCodePoint; a scalar value outside the model's characters is
\* shown as U+FFFD
fromCodePoint(n) ==
    IF n \in 32..126 THEN asciiChars[n - 31]
    ELSE IF \E i \in 1..Len(otherCodes) : otherCodes[i] = n
    THEN otherChars[CHOOSE i \in 1..Len(otherCodes) : otherCodes[i] = n]
    ELSE "U+FFFD"

\* the UTF-8 bytes of one scalar value
Utf8Char(n) ==
    IF n < 128 THEN << n >>
    ELSE IF n < 2048 THEN << 192 + (n \div 64), 128 + (n % 64) >>
    ELSE IF n < 65536
    THEN << 224 + (n \div 4096), 128 + ((n \div 64) % 64), 128 + (n % 64) >>
    ELSE << 240 + (n \div 262144), 128 + ((n \div 4096) % 64),
            128 + ((n \div 64) % 64), 128 + (n % 64) >>

RECURSIVE EncodeRange(_, _, _)
EncodeRange(t, lo, hi) ==
    IF lo > hi THEN <<>>
    ELSE IF lo = hi THEN Utf8Char(codePointAt(t[lo]))
    ELSE LET mid == (lo + hi) \div 2
         IN  EncodeRange(t, lo, mid) \o EncodeRange(t, mid + 1, hi)

\* new TextEncoder().encode(t)
TextEncode(t) == EncodeRange(t, 1, Len(t))

IsCont(b) == b \in 128..191

\* the length of the sequence a lead byte announces, 0 for an invalid lead
Utf8SeqLen(b) ==
    IF b < 128 THEN 1
    ELSE IF b \in 194..223 THEN 2
    ELSE IF b \in 224..239 THEN 3
    ELSE IF b \in 240..244 THEN 4
    ELSE 0

\* the range allowed for the second byte after lead byte b
Utf8SecondOk(b, s) ==
    IF b = 224 THEN s \in 160..191
    ELSE IF b = 237 THEN s \in 128..159
    ELSE IF b = 240 THEN s \in 144..191
    ELSE IF b = 244 THEN s \in 128..143
    ELSE IsCont(s)

\* one step of the UTF-8 decoder at position i of bs[1..hi]: the scalar value
\* and the next position; an ill-formed sequence gives U+FFFD and consumes
\* the lead byte and the continuation bytes that fit it
DecodeAt(bs, i, hi) ==
    LET b == bs[i]
        l == Utf8SeqLen(b)
        fits(k) == /\ i + k <= hi
                   /\ IF k = 1 THEN Utf8SecondOk(b, bs[i + 1]) ELSE IsCont(bs[i + k])
        got == IF l <= 1 THEN 0
               ELSE IF ~fits(1) THEN 0
               ELSE IF l = 2 \/ ~fits(2) THEN 1
               ELSE IF l = 3 \/ ~fits(3) THEN 2
               ELSE 3
    IN  IF l = 1 THEN [cp |-> b, next |-> i + 1]
        ELSE IF l = 0 \/ got < l - 1 THEN [cp |-> 65533, next |-> i + 1 + got]
        ELSE IF l = 2 THEN [cp |-> (b % 32) * 64 + (bs[i + 1] % 64), next |-> i + 2]
        ELSE IF l = 3
        THEN [cp |-> (b % 16) * 4096 + (bs[i + 1] % 64) * 64 + (bs[i + 2] % 64),
              next |-> i + 3]
        ELSE [cp |-> (b % 8) * 262144 + (bs[i + 1] % 64) * 4096
                     + (bs[i + 2] % 64) * 64 + (bs[i + 3] % 64),
              next |-> i + 4]

\* the scalar values of bs[lo..hi]; a long range is cut at a byte that
\* starts a sequence
RECURSIVE DecodeRange(_, _, _)
DecodeRange(bs, lo, hi) ==
    IF lo > hi THEN <<>>
    ELSE IF hi - lo >= 8 /\ \E j \in (lo + 4)..hi : ~IsCont(bs[j])
    THEN With(CHOOSE j \in (lo + 4)..hi :
                /\ ~IsCont(bs[j])
                /\ \A k \in (lo + 4)..hi :
                        ~IsCont(bs[k]) => (IF \E m \in ((lo + hi) \div 2)..hi : ~IsCont(bs[m])
                                           THEN (j >= (lo + hi) \div 2
                                                 /\ (k >= (lo + hi) \div 2 => j <= k))
                                           ELSE k <= j),
              LAMBDA mid : DecodeRange(bs, lo, mid - 1) \o DecodeRange(bs, mid, hi))
    ELSE With(DecodeAt(bs, lo, hi), LAMBDA d : << d.cp >> \o DecodeRange(bs, d.next, hi))

\* new TextDecoder().decode(bs): UTF-8, not fatal, ignoreBOM false, so a
\* leading U+FEFF is dropped
TextDecode(bs) ==
    With(DecodeRange(bs, 1, Len(bs)), LAMBDA cps :
        With(IF cps # <<>> /\ cps[1] = 65279 THEN Tail(cps) ELSE cps, LAMBDA kept :
            [i \in 1..Len(kept) |-> fromCodePoint(kept[i])]))

hexDigits ==
    << "0", "1", "2", "3", "4", "5", "6", "7", "8", "9", "a", "b", "c", "d", "e", "f" >>

\* Array.from(bytes).map(b => b.toString(16).padStart(2, '0')).join('')
BytesToHex(bs) ==
    With(bs, LAMBDA b :
        [i \in 1..(2 * Len(b)) |->
            hexDigits[(IF i % 2 = 1 THEN b[(i + 1) \div 2] \div 16 ELSE b[i \div 2] % 16) + 1]])

HexValueTable ==
    [c \in {hexDigits[i] : i \in 1..16} \cup {"A", "B", "C", "D", "E", "F"} |->
        IF \E i \in 1..16 : hexDigits[i] = c
        THEN (CHOOSE i \in 1..16 : hexDigits[i] = c) - 1
        ELSE 9 + (CHOOSE i \in 1..6 : <<"A", "B", "C", "D", "E", "F">>[i] = c)]

IsHexDigit(c) == c \in DOMAIN HexValueTable

NaN == [nan |-> TRUE, val |-> 0]

\* parseInt(chunk, 16): leading white space, a sign, an 0x prefix, then the
\* longest run of hex digits; NaN when there is none
parseInt16(chunk) ==
    LET s1  == TrimLeft(chunk)
        neg == s1 # <<>> /\ s1[1] = "-"
        s2  == IF s1 # <<>> /\ s1[1] \in {"+", "-"} THEN Tail(s1) ELSE s1
        s3  == IF Len(s2) >= 2 /\ s2[1] = "0" /\ s2[2] \in {"x", "X"}
               THEN SubSeq(s2, 3, Len(s2)) ELSE s2
        n   == IF \E i \in 1..Len(s3) : ~IsHexDigit(s3[i])
               THEN (CHOOSE i \in 1..Len(s3) :
                        ~IsHexDigit(s3[i]) /\ \A j \in 1..(i - 1) : IsHexDigit(s3[j])) - 1
               ELSE Len(s3)
        RECURSIVE value(_)
        value(k) == IF k = 0 THEN 0 ELSE 16 * value(k - 1) + HexValueTable[s3[k]]
    IN  IF n = 0 THEN NaN
        ELSE [nan |-> FALSE, val |-> IF neg THEN 0 - value(n) ELSE value(n)]

\* the conversion of a number to an element of a Uint8Array
ToUint8(x) == IF x.nan THEN 0 ELSE x.val % 256

\* new Uint8Array(hex.match(/.{1,2}/g)!.map(byte => parseInt(byte, 16)))
\* for a non-empty hex
HexToBytes(hex) ==
    With(hex, LAMBDA h :
        SubSeq([k \in 1..((Len(h) + 1) \div 2) |->
                    ToUint8(parseInt16(SubSeq(h, 2 * k - 1,
                                              IF 2 * k <= Len(h) THEN 2 * k ELSE Len(h))))],
               1, (Len(h) + 1) \div 2))

(***************************************************************************)
(* cryptoService: deriveKey, encrypt, decrypt                              *)
(***************************************************************************)
\* sum of (k * (bs[k] + 1)) over lo..hi
RECURSIVE PosSum(_, _, _)
PosSum(bs, lo, hi) ==
    IF lo > hi THEN 0
    ELSE IF lo = hi THEN lo * (bs[lo] + 1)
    ELSE LET mid == (lo + hi) \div 2
         IN  PosSum(bs, lo, mid) + PosSum(bs, mid + 1, hi)

\* deriveKey(password, salt): PBKDF2 maps the password's UTF-8 bytes and the
\* salt to an AES-GCM key.  The primitive is external; the key is kept as
\* the pair that determines it.
deriveKey(password, salt) == [material |-> TextEncode(password), salt |-> salt]

KeySeed(key) == (WeightedSum(key.material, 31) * 7 + WeightedSum(key.salt, 37) * 11) % 65521

\* AES-GCM is external: a stand-in with a key stream added byte by byte and a
\* 16-byte tag that depends on the key, the iv and every ciphertext byte
KeyStreamAt(seed, i) == (seed + 7 * (i % 256) + (seed \div 256) * ((i % 256) % 5)) % 256

KeyStreamSeed(key, iv) == KeySeed(key) + WeightedSum(iv, 41)

TagBytes(k, v, c, n) ==
    << k \div 256, k % 256, v \div 256, v % 256,
       (c \div 16777216) % 256, (c \div 65536) % 256, (c \div 256) % 256, c % 256,
       n % 256, (k + v) % 256, (k + c) % 256, (v + c) % 256,
       (k + v + c) % 256, (k * 3 + v) % 256, (v * 3 + c) % 256, (c * 3 + k) % 256 >>

AesGcmTag(key, iv, ct) ==
    With(<< KeySeed(key), WeightedSum(iv, 41), PosSum(ct, 1, Len(ct)), Len(ct) >>,
         LAMBDA x : TagBytes(x[1], x[2], x[3], x[4]))

\* crypto.subtle.encrypt({name: 'AES-GCM', iv}, key, pt): ciphertext then tag
AesGcmEncrypt(key, iv, pt) ==
    With(<< KeyStreamSeed(key, iv), pt >>, LAMBDA x :
        With(SubSeq([i \in 1..Len(x[2]) |-> (x[2][i] + KeyStreamAt(x[1], i)) % 256],
                    1, Len(x[2])),
             LAMBDA ct : ct \o AesGcmTag(key, iv, ct)))

\* crypto.subtle.decrypt without the check of the tag
AesGcmDecryptNoAuth(key, iv, data) ==
    With(<< KeyStreamSeed(key, iv), data >>, LAMBDA x :
        IF Len(x[2]) < 16 THEN Err("OperationError")
        ELSE Ok(SubSeq([i \in 1..(Len(x[2]) - 16) |-> (x[2][i] - KeyStreamAt(x[1], i)) % 256],
                       1, Len(x[2]) - 16)))

\* crypto.subtle.decrypt({name: 'AES-GCM', iv}, key, data): rejects with an
\* OperationError unless the tag is the one of (key, iv, ciphertext)
AesGcmDecrypt(key, iv, data) ==
    With(<< KeyStreamSeed(key, iv), data, iv >>, LAMBDA x :
        IF Len(x[2]) < 16 THEN Err("OperationError")
        ELSE IF SubSeq(x[2], Len(x[2]) - 15, Len(x[2]))
                    # AesGcmTag(key, x[3], SubSeq(x[2], 1, Len(x[2]) - 16))
        THEN Err("OperationError")
        ELSE Ok(SubSeq([i \in 1..(Len(x[2]) - 16) |-> (x[2][i] - KeyStreamAt(x[1], i)) % 256],
                       1, Len(x[2]) - 16)))

\* encrypt(data, key) with the 12 random bytes iv
encrypt(data, key, iv) ==
    BytesToHex(iv) \o << ":" >> \o BytesToHex(AesGcmEncrypt(key, iv, TextEncode(data)))

\* const [ivHex, encryptedHex] = encryptedStr.split(':')
SplitFirstTwo(t) ==
    LET c1 == FirstIndex(t, ":")
    IN  IF c1 = 0 THEN [ivHex |-> Some(t), encryptedHex |-> None]
        ELSE LET rest == SubSeq(t, c1 + 1, Len(t))
                 c2   == FirstIndex(rest, ":")
             IN  [ ivHex |-> Some(SubSeq(t, 1, c1 - 1)),
                   encryptedHex |-> Some(IF c2 = 0 THEN rest ELSE SubSeq(rest, 1, c2 - 1)) ]

\* decrypt(encryptedStr, key)
decrypt(encryptedStr, key) ==
    With(SplitFirstTwo(encryptedStr), LAMBDA parts :
        IF parts.ivHex[1] = <<>> \/ parts.encryptedHex = None \/ parts.encryptedHex[1] = <<>>
        THEN Err("Invalid encrypted data format")
        ELSE With(AesGcmDecrypt(key, HexToBytes(parts.ivHex[1]),
                                HexToBytes(parts.encryptedHex[1])), LAMBDA decryptedData :
                IF ~decryptedData.ok THEN Err(decryptedData.err)
                ELSE Ok(TextDecode(decryptedData.val))))

(***************************************************************************)
(* JSON.stringify and JSON.parse on the values the program stores: an      *)
(* object whose members are strings, and an array of such objects.  An     *)
(* object is a sequence of <<key, value>> pairs in the order of the text.  *)
(***************************************************************************)
\* a string literal without escapes
JsonQuoteRaw(t) == << "\"" >> \o t \o << "\"" >>

\* a JSON string literal: quotes, and backslash escapes for " and \
RECURSIVE JsonQuoteFrom(_, _)
JsonQuoteFrom(t, i) ==
    IF i > Len(t) THEN << "\"" >>
    ELSE (IF t[i] = "\"" \/ t[i] = "\\" THEN << "\\", t[i] >> ELSE << t[i] >>)
         \o JsonQuoteFrom(t, i + 1)

JsonQuote(t) == << "\"" >> \o JsonQuoteFrom(t, 1)

RECURSIVE JsonMembersFrom(_, _)
JsonMembersFrom(members, i) ==
    IF i > Len(members) THEN <<>>
    ELSE (IF i > 1 THEN << "," >> ELSE <<>>)
         \o JsonQuote(members[i][1]) \o << ":" >> \o JsonQuote(members[i][2])
         \o JsonMembersFrom(members, i + 1)

\* JSON.stringify of an object with string members
JsonObjectText(members) == << "{" >> \o JsonMembersFrom(members, 1) \o << "}" >>

RECURSIVE JsonElementsFrom(_, _)
JsonElementsFrom(objects, i) ==
    IF i > Len(objects) THEN <<>>
    ELSE (IF i > 1 THEN << "," >> ELSE <<>>)
         \o JsonObjectText(objects[i]) \o JsonElementsFrom(objects, i + 1)

\* JSON.stringify of an array of such objects
JsonArrayText(objects) == << "[" >> \o JsonElementsFrom(objects, 1) \o << "]" >>

CharAt(t, i) == IF i >= 1 /\ i <= Len(t) THEN t[i] ELSE "EOF"

ParseFail == [ok |-> FALSE, val |-> <<>>, next |-> 0]

\* the characters of a string literal from position i (after the opening
\* quote) to its closing quote
\* the number of backslashes in a row that end just before position j of a
\* string literal whose characters start at i
BackslashRun(t, i, j) ==
    IF \A m \in i..(j - 1) : t[m] = "\\" THEN j - i
    ELSE j - 1 - (CHOOSE m \in i..(j - 1) :
                    t[m] # "\\" /\ \A n \in (m + 1)..(j - 1) : t[n] = "\\")

\* the character at j follows a backslash that escapes it
IsEscaped(t, i, j) == BackslashRun(t, i, j) % 2 = 1

ClosingQuotes(t, i) == { j \in i..Len(t) : t[j] = "\"" /\ ~IsEscaped(t, i, j) }

\* the characters of i..(j - 1) without the escaping backslashes
Unescape(t, i, j) ==
    With({ k \in i..(j - 1) : t[k] # "\\" \/ IsEscaped(t, i, k) }, LAMBDA kept :
        [n \in 1..Cardinality(kept) |->
            t[CHOOSE k \in kept : Cardinality({m \in kept : m <= k}) = n]])

ParseChars(t, i) ==
    With(ClosingQuotes(t, i), LAMBDA quotes :
        IF quotes = {} THEN ParseFail
        ELSE With(CHOOSE j \in quotes : \A m \in quotes : j <= m, LAMBDA j :
            IF \E k \in i..(j - 1) : IsEscaped(t, i, k) /\ t[k] \notin {"\"", "\\", "/"}
            THEN ParseFail
            ELSE [ok |-> TRUE,
                  val |-> IF \A k \in i..(j - 1) : t[k] # "\\"
                          THEN SubSeq(t, i, j - 1)
                          ELSE Unescape(t, i, j),
                  next |-> j + 1]))

ParseString(t, i) == IF CharAt(t, i) = "\"" THEN ParseChars(t, i + 1) ELSE ParseFail

\* the value that follows a key: a colon and a string literal
ParseValue(t, i) == IF CharAt(t, i) = ":" THEN ParseString(t, i + 1) ELSE ParseFail

\* "key":"value" members separated by commas, up to the closing brace
RECURSIVE ParseMembers(_, _)
ParseMembers(t, i) ==
    With(ParseString(t, i), LAMBDA k :
        IF ~k.ok THEN ParseFail
        ELSE With(ParseValue(t, k.next), LAMBDA v :
            IF ~v.ok THEN ParseFail
            ELSE IF CharAt(t, v.next) = "}"
            THEN [ok |-> TRUE, val |-> << <<k.val, v.val>> >>, next |-> v.next + 1]
            ELSE IF CharAt(t, v.next) = ","
            THEN With(ParseMembers(t, v.next + 1), LAMBDA r :
                    IF r.ok
                    THEN [ok |-> TRUE, val |-> << <<k.val, v.val>> >> \o r.val, next |-> r.next]
                    ELSE ParseFail)
            ELSE ParseFail))

ParseObject(t, i) ==
    IF CharAt(t, i) # "{" THEN ParseFail
    ELSE IF CharAt(t, i + 1) = "}" THEN [ok |-> TRUE, val |-> <<>>, next |-> i + 2]
    ELSE ParseMembers(t, i + 1)

RECURSIVE ParseElements(_, _)
ParseElements(t, i) ==
    With(ParseObject(t, i), LAMBDA o :
        IF ~o.ok THEN ParseFail
        ELSE IF CharAt(t, o.next) = "]"
        THEN [ok |-> TRUE, val |-> << o.val >>, next |-> o.next + 1]
        ELSE IF CharAt(t, o.next) = ","
        THEN With(ParseElements(t, o.next + 1), LAMBDA r :
                IF r.ok THEN [ok |-> TRUE, val |-> << o.val >> \o r.val, next |-> r.next]
                ELSE ParseFail)
        ELSE ParseFail)

ParseArray(t, i) ==
    IF CharAt(t, i) # "[" THEN ParseFail
    ELSE IF CharAt(t, i + 1) = "]" THEN [ok |-> TRUE, val |-> <<>>, next |-> i + 2]
    ELSE ParseElements(t, i + 1)

\* JSON.parse(t) for a text without white space: an array of objects or an
\* object; any other text is reported as a SyntaxError
JsonParse(t) ==
    IF CharAt(t, 1) = "["
    THEN With(ParseArray(t, 1), LAMBDA a :
            IF a.ok /\ a.next = Len(t) + 1 THEN Ok([type |-> "array", items |-> a.val])
            ELSE Err("SyntaxError"))
    ELSE With(ParseObject(t, 1), LAMBDA o :
            IF o.ok /\ o.next = Len(t) + 1 THEN Ok([type |-> "object", members |-> o.val])
            ELSE Err("SyntaxError"))

\* the value of property key of a parsed object: the last member of that
\* name, None when there is none
GetMember(members, key) ==
    IF \E i \in 1..Len(members) : members[i][1] = key
    THEN Some(members[CHOOSE i \in 1..Len(members) :
                        members[i][1] = key /\ \A j \in (i + 1)..Len(members) : members[j][1] # key][2])
    ELSE None

\* property names
KeyId       == << "i", "d" >>
KeyIssuer   == << "i", "s", "s", "u", "e", "r" >>
KeyName     == << "n", "a", "m", "e" >>
KeySecret   == << "s", "e", "c", "r", "e", "t" >>
KeyUsername == << "u", "s", "e", "r", "n", "a", "m", "e" >>
KeyPassword == << "p", "a", "s", "s", "w", "o", "r", "d" >>
KeySalt     == << "s", "a", "l", "t" >>
KeyEmail    == << "e", "m", "a", "i", "l" >>

\* an Account (types.ts) as the members JSON.stringify writes: undefined
\* properties are left out
AccountMembers(a) ==
    << <<KeyIssuer, a.issuer>>, <<KeyName, a.name>>, <<KeySecret, a.secret>> >>
    \o (IF a.username = None THEN <<>> ELSE << <<KeyUsername, a.username[1]>> >>)
    \o (IF a.password = None THEN <<>> ELSE << <<KeyPassword, a.password[1]>> >>)
    \o << <<KeyId, a.id>> >>

\* the text of an optional string property, "" when it is absent
MemberText(m) == IF m = None THEN <<>> ELSE m[1]

\* a parsed object read as an Account
MembersAccount(members) ==
    [ id       |-> MemberText(GetMember(members, KeyId)),
      issuer   |-> MemberText(GetMember(members, KeyIssuer)),
      name     |-> MemberText(GetMember(members, KeyName)),
      secret   |-> MemberText(GetMember(members, KeySecret)),
      username |-> GetMember(members, KeyUsername),
      password |-> GetMember(members, KeyPassword) ]

\* JSON.stringify(accounts)
StringifyAccounts(accounts) ==
    JsonArrayText([i \in 1..Len(accounts) |-> AccountMembers(accounts[i])])

\* JSON.parse(text) read as Account[]
ParseAccounts(text) ==
    With(JsonParse(text), LAMBDA v :
        IF ~v.ok THEN Err(v.err)
        ELSE IF v.val.type # "array" THEN Ok(v.val)
        ELSE Ok([i \in 1..Len(v.val.items) |-> MembersAccount(v.val.items[i])]))

(***************************************************************************)
(* storageService over localStorage: a function from storage keys to None  *)
(* or Some(text)                                                           *)
(***************************************************************************)
getStorageKey(email) == << "totp-accounts-", email >>
getUserKey(email) == << "totp-user-", email >>

setItem(storage, key, value) == [storage EXCEPT ![key] = Some(value)]
removeItem(storage, key) == [storage EXCEPT ![key] = None]

\* saveUser(email, saltHex)
saveUser(storage, email, saltHex) ==
    setItem(storage, getUserKey(email),
            JsonObjectText(<< <<KeySalt, saltHex>>, <<KeyEmail, email>> >>))

\* loadUser lines 22-32 on a non-empty item: None, or Some of the parsed
\* record when it has a string email and a string salt
parseUser(data) ==
    With(JsonParse(data), LAMBDA parsed :
        IF ~parsed.ok \/ parsed.val.type # "object" THEN None
        ELSE With(<< GetMember(parsed.val.members, KeySalt),
                     GetMember(parsed.val.members, KeyEmail) >>, LAMBDA m :
                IF m[1] = None \/ m[2] = None THEN None
                ELSE Some([salt |-> m[1][1], email |-> m[2][1]])))

\* userExists(email)
userExists(storage, email) == storage[getUserKey(email)] # None

\* deleteUser(email)
deleteUser(storage, email) ==
    removeItem(removeItem(storage, getStorageKey(email)), getUserKey(email))

\* a rename that writes a record with another salt (the stored one rotated)
RenamedUserTextOtherSalt(userData, newEmail) ==
    JsonObjectText(<< <<KeySalt, Tail(userData.salt) \o << Head(userData.salt) >> >>,
                      <<KeyEmail, newEmail>> >>)

\* the user record updateUserEmail writes: JSON.stringify of the parsed record
\* with its email replaced
RenamedUserText(userData, newEmail) ==
    JsonObjectText(<< <<KeySalt, userData.salt>>, <<KeyEmail, newEmail>> >>)

(***************************************************************************)
(* Bounds and input samples                                                *)
(***************************************************************************)
MaxBytes == 5

ByteSamples == {0, 72, 165, 255}

NoOutcome == [ok |-> FALSE, val |-> <<>>, err |-> "none"]

\* digests: the last byte selects the offset, the window holds the word
LastByteSamples == (0..15) \cup (240..255)
WindowSamples == {0, 127, 255}
FillerSamples == {0, 255}

Digest(last, w, filler) ==
    LET off == last % 16
    IN  [i \in 1..20 |->
            IF i = 20 THEN last
            ELSE IF (i - 1) >= off /\ (i - 1) <= off + 3 THEN w[i - off]
            ELSE filler]

\* migration payloads: up to MaxSubMsgs decoded OtpParameters
MaxSubMsgs == 2

SecretBytesSamples == { <<72, 101, 108, 108, 111>>, <<72, 165>> }
NameSamples == { <<>>, <<"n">> }
IssuerSamples == { <<>>, <<"i">> }

ParamSamples ==
    [secret : SecretBytesSamples, name : NameSamples, issuer : IssuerSamples]

NoParams == <<>>

ScanInput(kind, data, otp, hasQuery, label, labelOk, secret, issuer) ==
    [ kind |-> kind, data |-> data, otpParameters |-> otp, hasQuery |-> hasQuery,
      label |-> label, labelOk |-> labelOk, secret |-> secret, issuer |-> issuer ]

MigrationInputs ==
    { ScanInput("migration", d, NoParams, FALSE, <<>>, TRUE, None, None) :
        d \in {"missing", "malformed"} }
    \cup
    { ScanInput("migration", "ok", otp, FALSE, <<>>, TRUE, None, None) :
        otp \in SeqsUpTo(ParamSamples, MaxSubMsgs) }

\* Base32 texts: "JBSWY3DP" ("Hello"), the same with a space and lower case,
\* an invalid one, one symbol (no whole byte), padding only
SecretTextSamples ==
    { <<"J","B","S","W","Y","3","D","P">>,
      <<"j","b","s","w"," ","Y","3","D","P">>,
      <<"J","1">>,
      <<"A">>,
      <<"=">> }

LabelSamples ==
    { <<"i",":"," ","n">>, <<"n">>, <<>>, <<"a",":","b",":","c">> }

GoodSecretText == <<"J","B","S","W","Y","3","D","P">>

TotpInputs ==
    { ScanInput("totp", "ok", NoParams, FALSE, <<"n">>, TRUE, Some(GoodSecretText), None) }
    \cup
    { ScanInput("totp", "ok", NoParams, TRUE, <<"n">>, ok, sec, None) :
        ok \in BOOLEAN,
        sec \in {None, Some(<<>>)} \cup {Some(t) : t \in SecretTextSamples} }
    \cup
    { ScanInput("totp", "ok", NoParams, TRUE, l, TRUE, Some(GoodSecretText), iss) :
        l \in LabelSamples, iss \in {None, Some(<<>>), Some(<<"I">>), Some(<<" ">>)} }

ScanInputs ==
    MigrationInputs \cup TotpInputs
    \cup { ScanInput("other", "ok", NoParams, FALSE, <<>>, TRUE, None, None) }

FormInputs ==
    [ issuer : IssuerSamples,
      name : { <<>>, <<" ">>, <<"n">> },
      secret : {<<>>} \cup SecretTextSamples,
      username : { <<>> },
      password : { <<"p">> } ]

\* the wall clock, in seconds, at a verification
NowSamples == {60, 89, 90}

\* what the user may type as the verification code: the codes of the
\* counters around the clock, and a fixed wrong one
CounterSamples == 0..5

\* generateHOTP tabulated over the secrets and counters of the samples
HotpSecrets == { RemoveWhitespace(Trim(t)) : t \in SecretTextSamples }

HotpTable == [s \in HotpSecrets, c \in CounterSamples |-> generateHOTP(s, c)]

Hotp(secret, counter) ==
    IF <<secret, counter>> \in DOMAIN HotpTable
    THEN HotpTable[secret, counter]
    ELSE generateHOTP(secret, counter)

CodeSamples(secret) ==
    { Hotp(secret, c).val : c \in {k \in CounterSamples : Hotp(secret, k).ok} }
    \cup { <<"0","0","0","0","0","0">> }

\* handleVerificationSubmit lines 291-298: the three codes of the window
\* around counter = floor(now / 30); Err when any generateHOTP throws
ValidCodesNarrow(secret, now) ==
    LET counter == now \div 30
        cs == << Hotp(secret, counter), Hotp(secret, counter + 1) >>
    IN  IF \E i \in 1..2 : ~cs[i].ok THEN Err("verification failed")
        ELSE Ok({cs[i].val : i \in 1..2})

ValidCodes(secret, now) ==
    LET counter == now \div 30
        cs == << Hotp(secret, counter - 1), Hotp(secret, counter),
                 Hotp(secret, counter + 1) >>
    IN  IF \E i \in 1..3 : ~cs[i].ok THEN Err("verification failed")
        ELSE Ok({cs[i].val : i \in 1..3})

\* plaintexts: up to MaxPlain characters, ASCII and not, and a JSON text
MaxPlain == 2

PlainCharSamples == { "a", "U+00E9", "U+FEFF" }

PlainSamples ==
    SeqsUpTo(PlainCharSamples, MaxPlain)
    \cup { << "[", "{", "\"", "i", "d", "\"", ":", "\"", "1", "\"", "}", "]" >>,
           << "U+20AC", "U+1F600" >> }

PasswordSamples == { << "p", "w" >>, << "p", "W" >>, << "U+FEFF", "p", "w" >> }

\* getRandomValues: 16-byte salts and 12-byte ivs
SaltSamples == { [i \in 1..16 |-> 10], [i \in 1..16 |-> (37 * i) % 256] }

IvSamples == { [i \in 1..12 |-> 0], [i \in 1..12 |-> 255 - i] }

\* the store: two users, two master passwords, one salt and iv each
EmailA == << "a", "@", "x", ".", "y" >>
EmailB == << "b", "@", "x", ".", "y" >>
EmailSamples == { EmailA, EmailB }

PwA == << "h", "u", "n", "t", "e", "r", "2", "2" >>
PwB == << "H", "u", "n", "t", "e", "r", "2", "2" >>
MasterPasswords == { PwA, PwB }

SaltA == [i \in 1..16 |-> (37 * i) % 256]
SaltB == [i \in 1..16 |-> 10]
IvA == [i \in 1..12 |-> 255 - i]

\* accounts: one from a QR code, one from the manual form with a quote, a
\* backslash and characters outside ASCII in its fields
Account1 ==
    [ id |-> << "1", "7" >>, issuer |-> << "i" >>, name |-> << "n" >>,
      secret |-> GoodSecretText, username |-> None, password |-> None ]

Account2 ==
    [ id |-> << "1", "8" >>, issuer |-> << "U+FEFF", "U+00E9" >>, name |-> << "\"", "\\", "}" >>,
      secret |-> << "J", "5" >>, username |-> Some(<<>>), password |-> Some(<< "p", ",", "]" >>) ]

AccountListSamples == { <<>>, << Account1 >>, << Account2, Account1 >> }

\* the lists a session can hold when Account1 and Account2 are added and deleted
SessionLists == AccountListSamples \cup { << Account2 >>, << Account1, Account2 >> }

\* getAdminUser() and the password of ensureAdminExists
AdminEmail ==
    << "n","o","r","u","l","e","x","@","g","m","a","i","l",".","c","o","m" >>
AdminPassword == << "P","E","2","3","8","9","8","c","a","a","f","j","!" >>

\* the reserved email as a user may type it
AdminEmailCased ==
    << "N", "o", "r", "u", "l", "e", "x", "@", "g", "m", "a", "i", "l", ".", "c", "o", "m" >>

\* the emails of the user-namespace driver, and every email a key is kept for
UserEmails == EmailSamples \cup {AdminEmail}
StorageEmails == UserEmails \cup {AdminEmailCased}

\* saveAccounts calls that may be awaiting encrypt at once
MaxInFlight == 2

(***************************************************************************)
(* storageService: saveAccounts and loadAccounts.  The results of encrypt  *)
(* and decrypt on the samples are tabulated once.                          *)
(***************************************************************************)
SampleKeys == { deriveKey(p, salt) : p \in MasterPasswords, salt \in {SaltA, SaltB} }

EncryptTable ==
    [ accounts \in SessionLists, key \in SampleKeys |->
        encrypt(StringifyAccounts(accounts), key, IvA) ]

\* saveAccounts up to its await: the text handed to localStorage.setItem
\* once encrypt resolves
saveAccountsText(accounts, key, iv) ==
    IF iv = IvA /\ <<accounts, key>> \in DOMAIN EncryptTable
    THEN EncryptTable[accounts, key]
    ELSE encrypt(StringifyAccounts(accounts), key, iv)

\* loadAccounts after the test for a missing item: decrypt, then JSON.parse
decryptAccounts(encryptedData, key) ==
    With(decrypt(encryptedData, key), LAMBDA decryptedData :
        IF ~decryptedData.ok THEN Err(decryptedData.err)
        ELSE ParseAccounts(decryptedData.val))

DecryptTable ==
    [ text \in {EncryptTable[x] : x \in DOMAIN EncryptTable}, key \in SampleKeys |->
        decryptAccounts(text, key) ]

decryptAccountsAt(encryptedData, key) ==
    IF <<encryptedData, key>> \in DOMAIN DecryptTable
    THEN DecryptTable[encryptedData, key]
    ELSE decryptAccounts(encryptedData, key)

\* the user records saveUser writes for the samples, parsed once
UserRecordTable ==
    [ text \in { JsonObjectText(<< <<KeySalt, BytesToHex(salt)>>, <<KeyEmail, e>> >>) :
                    e \in EmailSamples \cup {AdminEmail}, salt \in {SaltA, SaltB} } |->
        parseUser(text) ]

\* loadUser(email)
loadUser(storage, email) ==
    LET data == storage[getUserKey(email)]
    IN  IF data = None \/ data[1] = <<>> THEN None
        ELSE IF data[1] \in DOMAIN UserRecordTable THEN UserRecordTable[data[1]]
        ELSE parseUser(data[1])

\* loadAccounts(key, email) without the test for a missing item
loadAccountsNoEmptyCheck(storage, key, email) ==
    LET encryptedData == storage[getStorageKey(email)]
    IN  decryptAccountsAt(IF encryptedData = None THEN <<>> ELSE encryptedData[1], key)

\* loadAccounts(key, email) on the item read at the call
loadAccounts(storage, key, email) ==
    LET encryptedData == storage[getStorageKey(email)]
    IN  IF encryptedData = None \/ encryptedData[1] = <<>> THEN Ok(<<>>)
        ELSE decryptAccountsAt(encryptedData[1], key)

\* updateUserEmail(oldEmail, newEmail): the boolean it returns and the storage
\* it leaves
updateUserEmail(storage, oldEmail, newEmail) ==
    IF userExists(storage, newEmail) THEN [ok |-> FALSE, storage |-> storage]
    ELSE
        With(loadUser(storage, oldEmail), LAMBDA userData :
        With(IF userData # None
             THEN removeItem(setItem(storage, getUserKey(newEmail),
                                     RenamedUserText(userData[1], newEmail)),
                             getUserKey(oldEmail))
             ELSE storage, LAMBDA moved :
        With(moved[getStorageKey(oldEmail)], LAMBDA accountsData :
            [ ok |-> TRUE,
              storage |->
                IF accountsData # None /\ accountsData[1] # <<>>
                THEN removeItem(setItem(moved, getStorageKey(newEmail), accountsData[1]),
                                getStorageKey(oldEmail))
                ELSE moved ])))

(***************************************************************************)
(* Subsystem frames                                                        *)
(***************************************************************************)
OthersB32   == <<hotpVars, modalVars, cryptoVars, storeVars, totpVars, appVars,
                usersVars, adminVars>>
OthersHotp  == <<b32Vars, modalVars, cryptoVars, storeVars, totpVars, appVars,
                usersVars, adminVars>>
OthersModal == <<b32Vars, hotpVars, cryptoVars, storeVars, totpVars, appVars,
                usersVars, adminVars>>
OthersCrypto == <<b32Vars, hotpVars, modalVars, storeVars, totpVars, appVars,
                usersVars, adminVars>>
OthersStore == <<b32Vars, hotpVars, modalVars, cryptoVars, totpVars, appVars,
                usersVars, adminVars>>
OthersTotp  == <<b32Vars, hotpVars, modalVars, cryptoVars, storeVars, appVars,
                usersVars, adminVars>>
\* the App writes localStorage; the rest of the store driver stands still
OthersApp   == <<b32Vars, hotpVars, modalVars, cryptoVars, totpVars,
                saving, storeLast, storeWritten, usersVars, adminVars>>
\* the calls on the user namespaces write localStorage only
OthersUsers == <<b32Vars, hotpVars, modalVars, cryptoVars, totpVars, appVars,
                saving, storeLast, storeWritten, adminVars>>
\* the admin panel writes localStorage and the App's state
OthersAdmin == <<b32Vars, hotpVars, modalVars, cryptoVars, totpVars,
                saving, storeLast, storeWritten, usersVars>>

(***************************************************************************)
(* Base32 codec driver                                                     *)
(***************************************************************************)
InitB32 ==
    /\ b32Bytes = <<>>
    /\ b32Text = <<>>
    /\ b32Decoded = NoOutcome
    /\ b32Phase = "idle"

\* bytesToBase32(b) for a byte sequence b
B32Encode(b) ==
    /\ b32Phase = "idle"
    /\ b32Bytes' = b
    /\ b32Text' = bytesToBase32(b)
    /\ b32Decoded' = NoOutcome
    /\ b32Phase' = "encoded"
    /\ UNCHANGED OthersB32

\* base32ToBytes of the text at hand
B32Decode ==
    /\ b32Phase = "encoded"
    /\ b32Decoded' = base32ToBytes(b32Text)
    /\ b32Phase' = "decoded"
    /\ UNCHANGED <<b32Bytes, b32Text>>
    /\ UNCHANGED OthersB32

\* the driver forgets the finished round trip
B32Reset ==
    /\ b32Phase = "decoded"
    /\ b32Bytes' = <<>>
    /\ b32Text' = <<>>
    /\ b32Decoded' = NoOutcome
    /\ b32Phase' = "idle"
    /\ UNCHANGED OthersB32

NextB32 ==
    \/ \E b \in SeqsUpTo(ByteSamples, MaxBytes) : B32Encode(b)
    \/ B32Decode
    \/ B32Reset

\* the texts handed to base32ToBytes as they are: symbols in both cases, the
\* padding character, a digit outside the alphabet
MaxSymbols == 3
MaxPad == 2
SymbolSamples == { "A", "b", "7", "=", "1" }
DecodeTexts == SeqsUpTo(SymbolSamples, MaxSymbols)

\* base32ToBytes(t) for a text t
B32DecodeText(t) ==
    /\ b32Phase = "idle"
    /\ b32Bytes' = <<>>
    /\ b32Text' = t
    /\ b32Decoded' = base32ToBytes(t)
    /\ b32Phase' = "decoded"
    /\ UNCHANGED OthersB32

NextDecode ==
    \/ \E t \in DecodeTexts : B32DecodeText(t)
    \/ B32Reset

(***************************************************************************)
(* HOTP truncation driver                                                  *)
(***************************************************************************)
NoTruncation == [ok |-> FALSE, offset |-> 0, reads |-> {}, binary |-> 0, code |-> <<>>]

InitHotp ==
    /\ hmacBytes = <<>>
    /\ hotpOut = NoTruncation

\* crypto.subtle.sign resolves with the digest d (generateHOTP lines 35-36)
HmacResult(d) ==
    /\ hmacBytes = <<>>
    /\ hmacBytes' = d
    /\ hotpOut' = NoTruncation
    /\ UNCHANGED OthersHotp

\* the truncation of generateHOTP on the digest (lines 38-47)
Truncate ==
    /\ hmacBytes # <<>>
    /\ ~hotpOut.ok
    /\ hotpOut' = DynamicTruncation(hmacBytes)
    /\ UNCHANGED hmacBytes
    /\ UNCHANGED OthersHotp

\* the call returns
HotpReturn ==
    /\ hotpOut.ok
    /\ hmacBytes' = <<>>
    /\ hotpOut' = NoTruncation
    /\ UNCHANGED OthersHotp

NextHotp ==
    \/ \E last \in LastByteSamples, w \in [1..4 -> WindowSamples], f \in FillerSamples :
            HmacResult(Digest(last, w, f))
    \/ Truncate
    \/ HotpReturn

(***************************************************************************)
(* AddAccountModal                                                         *)
(***************************************************************************)
NoScan == ScanInput("none", "ok", NoParams, FALSE, <<>>, TRUE, None, None)

\* the content of an imported file: what JSON.parse makes of it.  An item is
\* an object with members issuer, name, secret (None when absent, Some of the
\* string otherwise) or a value that is no object
MaxImport == 3

ImportItem(object, issuer, name, secret) ==
    [object |-> object, issuer |-> issuer, name |-> name, secret |-> secret]

ImportItemSamples ==
    { ImportItem(TRUE, None, Some(<<"n">>), Some(GoodSecretText)),
      ImportItem(TRUE, Some(<<"i">>), Some(<<"n">>), Some(<<"1">>)),
      ImportItem(TRUE, None, None, Some(GoodSecretText)),
      ImportItem(TRUE, None, Some(<<"n">>), Some(<<>>)),
      ImportItem(FALSE, None, None, None) }

FileData(kind, items) == [kind |-> kind, items |-> items]
NoFile == FileData("none", <<>>)

FileSamples ==
    { FileData("array", items) : items \in SeqsUpTo(ImportItemSamples, MaxImport) }
    \cup { FileData("object", <<>>), FileData("syntax error", <<>>) }

\* the files of one entry, next to the other entry paths
SingleEntryFiles ==
    { FileData("array", items) : items \in SeqsUpTo(ImportItemSamples, 1) }

\* a JavaScript value used as a condition: undefined and '' are falsy
Truthy(v) == v # None /\ v[1] # <<>>

\* typeof item !== 'object' || item === null || !item.secret || !item.name
InvalidItem(item) == ~item.object \/ ~Truthy(item.secret) \/ ~Truthy(item.name)

\* the object the map callback of handleFileImport returns, lines 232-238
ImportAccount(item) ==
    [ issuer |-> IF Truthy(item.issuer) THEN item.issuer[1] ELSE item.name[1],
      name |-> item.name[1],
      secret |-> item.secret[1],
      username |-> None,
      password |-> None ]

\* handleFileImport reporting the last invalid entry instead of the first
FileImportOutcomeLast(data) ==
    IF data.kind = "syntax error"
    THEN [error |-> "SyntaxError", index |-> -1, called |-> "none", arg |-> <<>>]
    ELSE IF data.kind # "array"
    THEN [error |-> "not an array", index |-> -1, called |-> "none", arg |-> <<>>]
    ELSE IF \E i \in 1..Len(data.items) : InvalidItem(data.items[i])
    THEN [ error |-> "invalid entry",
           index |-> (CHOOSE i \in 1..Len(data.items) :
                        /\ InvalidItem(data.items[i])
                        /\ \A j \in (i + 1)..Len(data.items) : ~InvalidItem(data.items[j])) - 1,
           called |-> "none", arg |-> <<>> ]
    ELSE IF Len(data.items) = 0
    THEN [error |-> "no account in file", index |-> -1, called |-> "none", arg |-> <<>>]
    ELSE [ error |-> "", index |-> -1, called |-> "multi",
           arg |-> [i \in 1..Len(data.items) |-> ImportAccount(data.items[i])] ]

\* reader.onload of handleFileImport, lines 217-255: the error (with the index
\* its message carries, -1 when it carries none) or the accounts handed to
\* onAddMultipleAccounts
FileImportOutcome(data) ==
    IF data.kind = "syntax error"
    THEN [error |-> "SyntaxError", index |-> -1, called |-> "none", arg |-> <<>>]
    ELSE IF data.kind # "array"
    THEN [error |-> "not an array", index |-> -1, called |-> "none", arg |-> <<>>]
    ELSE IF \E i \in 1..Len(data.items) : InvalidItem(data.items[i])
    THEN [ error |-> "invalid entry",
           index |-> (CHOOSE i \in 1..Len(data.items) :
                        /\ InvalidItem(data.items[i])
                        /\ \A j \in 1..(i - 1) : ~InvalidItem(data.items[j])) - 1,
           called |-> "none", arg |-> <<>> ]
    ELSE IF Len(data.items) = 0
    THEN [error |-> "no account in file", index |-> -1, called |-> "none", arg |-> <<>>]
    ELSE [ error |-> "", index |-> -1, called |-> "multi",
           arg |-> [i \in 1..Len(data.items) |-> ImportAccount(data.items[i])] ]

NoModalOp ==
    [ op |-> "none", scan |-> NoScan, pending |-> None, called |-> "none",
      arg |-> <<>>, code |-> <<>>, now |-> 0, error |-> "", file |-> NoFile, index |-> -1 ]

InitModal ==
    /\ accountToVerify = None
    /\ modalError = ""
    /\ successMessage = FALSE
    /\ modalLast = NoModalOp

\* handleQrFileChange -> resetScan -> handleQrScan(in).  The upload control
\* is rendered only while no account is pending and no success is shown.
QrScan(in) ==
    /\ accountToVerify = None
    /\ ~successMessage
    /\ LET out == QrScanOutcome(in, None)
       IN  /\ accountToVerify' = out.pending
           /\ modalError' = out.error
           /\ successMessage' = (out.called = "multi")
           /\ modalLast' = [ op |-> "scan", scan |-> in, pending |-> None,
                             called |-> out.called, arg |-> out.arg,
                             code |-> <<>>, now |-> 0, error |-> out.error,
                             file |-> NoFile, index |-> -1 ]
    /\ UNCHANGED OthersModal

\* handleFileImport (lines 210-267) with the file read: reader.onload.  The
\* import tab shows the upload control while no account is pending and no
\* success is shown; setError is called on failure only.
FileImport(data) ==
    /\ accountToVerify = None
    /\ ~successMessage
    /\ \E out \in { FileImportOutcome(data) } :
           /\ modalError' = IF out.error # "" THEN out.error ELSE modalError
           /\ successMessage' = (out.called = "multi")
           /\ modalLast' = [ op |-> "import", scan |-> NoScan, pending |-> None,
                             called |-> out.called, arg |-> out.arg,
                             code |-> <<>>, now |-> 0, error |-> out.error,
                             file |-> data, index |-> out.index ]
    /\ UNCHANGED accountToVerify
    /\ UNCHANGED OthersModal

\* handleManualSubmit (lines 269-283) on the form fields
ManualSubmit(form) ==
    /\ accountToVerify = None
    /\ ~successMessage
    /\ IF Trim(form.name) = <<>> \/ Trim(form.secret) = <<>>
       THEN /\ modalError' = "name and secret required"
            /\ accountToVerify' = None
            /\ modalLast' = [NoModalOp EXCEPT !.op = "manual",
                                              !.error = "name and secret required"]
       ELSE /\ accountToVerify' =
                  Some([ issuer |-> IF Trim(form.issuer) # <<>> THEN Trim(form.issuer)
                                    ELSE Trim(form.name),
                         name |-> Trim(form.name),
                         secret |-> RemoveWhitespace(Trim(form.secret)),
                         username |-> Some(Trim(form.username)),
                         password |-> Some(form.password) ])
            /\ modalError' = modalError
            /\ modalLast' = [NoModalOp EXCEPT !.op = "manual"]
    /\ successMessage' = successMessage
    /\ UNCHANGED OthersModal

\* handleVerificationSubmit (lines 285-312) with the typed code at clock now
VerificationSubmit(code, now) ==
    /\ accountToVerify # None
    /\ LET acct  == accountToVerify[1]
           valid == ValidCodes(acct.secret, now)
           hit   == valid.ok /\ code \in valid.val
           error == IF ~valid.ok THEN "verification failed"
                    ELSE IF hit THEN "" ELSE "incorrect code"
       IN  /\ modalError' = error
           /\ successMessage' = (successMessage \/ hit)
           /\ modalLast' = [ op |-> "verify", scan |-> NoScan, pending |-> accountToVerify,
                             called |-> IF hit THEN "single" ELSE "none",
                             arg |-> IF hit THEN <<acct>> ELSE <<>>,
                             code |-> code, now |-> now, error |-> error,
                             file |-> NoFile, index |-> -1 ]
    /\ UNCHANGED accountToVerify
    /\ UNCHANGED OthersModal

\* resetScan (lines 322-331): the Voltar button and the tab buttons
ResetScan ==
    /\ accountToVerify # None \/ modalError # "" \/ successMessage
    /\ accountToVerify' = None
    /\ modalError' = ""
    /\ successMessage' = FALSE
    /\ modalLast' = NoModalOp
    /\ UNCHANGED OthersModal

\* onClose: the modal unmounts; reopening it starts from fresh state
ModalClose ==
    /\ modalLast # NoModalOp
    /\ accountToVerify' = None
    /\ modalError' = ""
    /\ successMessage' = FALSE
    /\ modalLast' = NoModalOp
    /\ UNCHANGED OthersModal

NextModal ==
    \/ \E in \in ScanInputs : QrScan(in)
    \/ \E form \in FormInputs : ManualSubmit(form)
    \/ \E now \in NowSamples :
          \E code \in (IF accountToVerify = None THEN {} ELSE CodeSamples(accountToVerify[1].secret)) :
            VerificationSubmit(code, now)
    \/ ResetScan
    \/ ModalClose

\* every entry path of the modal: QR scan, manual form, verification, and the
\* import of a JSON file
NextEntry ==
    \/ NextModal
    \/ \E data \in SingleEntryFiles : FileImport(data)

\* the import tab alone
NextImport ==
    \/ \E data \in FileSamples : FileImport(data)
    \/ ResetScan
    \/ ModalClose

(***************************************************************************)
(* cryptoService driver                                                    *)
(***************************************************************************)
InitCrypto ==
    /\ cryptoPlain = <<>>
    /\ cryptoPassword = <<>>
    /\ cryptoSalt = <<>>
    /\ cryptoEnvelope = <<>>
    /\ cryptoTry = <<>>
    /\ cryptoOut = NoOutcome
    /\ cryptoPhase = "idle"

\* encrypt(m, await deriveKey(p, s)) with the random iv
Encrypt(m, p, s, iv) ==
    /\ cryptoPhase = "idle"
    /\ cryptoPlain' = m
    /\ cryptoPassword' = p
    /\ cryptoSalt' = s
    /\ cryptoEnvelope' = encrypt(m, deriveKey(p, s), iv)
    /\ cryptoPhase' = "encrypted"
    /\ UNCHANGED <<cryptoTry, cryptoOut>>
    /\ UNCHANGED OthersCrypto

\* decrypt(envelope, await deriveKey(p, salt))
Decrypt(p) ==
    /\ cryptoPhase = "encrypted"
    /\ cryptoTry' = p
    /\ cryptoOut' = decrypt(cryptoEnvelope, deriveKey(p, cryptoSalt))
    /\ cryptoPhase' = "decrypted"
    /\ UNCHANGED <<cryptoPlain, cryptoPassword, cryptoSalt, cryptoEnvelope>>
    /\ UNCHANGED OthersCrypto

\* the driver forgets the finished round trip
CryptoReset ==
    /\ cryptoPhase \in {"decrypted", "checked"}
    /\ cryptoPlain' = <<>>
    /\ cryptoPassword' = <<>>
    /\ cryptoSalt' = <<>>
    /\ cryptoEnvelope' = <<>>
    /\ cryptoTry' = <<>>
    /\ cryptoOut' = NoOutcome
    /\ cryptoPhase' = "idle"
    /\ UNCHANGED OthersCrypto

\* what a caller may hand to decrypt: the two fields of a stored envelope and
\* damaged forms of them (empty, not hex, odd length), with and without ':'
EnvelopePassword == << "p", "w" >>
EnvelopeSalt == [i \in 1..16 |-> 10]
EnvelopeIvHex == BytesToHex([i \in 1..12 |-> 0])
EnvelopeDataHex ==
    BytesToHex(AesGcmEncrypt(deriveKey(EnvelopePassword, EnvelopeSalt),
                             [i \in 1..12 |-> 0], TextEncode(<< "a" >>)))
IvFields ==
    { <<>>, << "0" >>, << "z", "z" >>, << "0", "g" >>, EnvelopeIvHex,
      [EnvelopeIvHex EXCEPT ![2] = "g"],
      SubSeq(EnvelopeIvHex, 1, Len(EnvelopeIvHex) - 1) }
DataFields ==
    { <<>>, << "z" >>, << "0", "0" >>, EnvelopeDataHex,
      [EnvelopeDataHex EXCEPT ![1] = "x"],
      SubSeq(EnvelopeDataHex, 1, Len(EnvelopeDataHex) - 1) }
EnvelopeTexts ==
    IvFields \cup { iv \o << ":" >> \o data : iv \in IvFields, data \in DataFields }

\* decrypt(text, await deriveKey(p, salt)) on a text that encrypt need not
\* have written
DecryptText(text, p) ==
    /\ cryptoPhase = "idle"
    /\ cryptoEnvelope' = text
    /\ cryptoTry' = p
    /\ cryptoSalt' = EnvelopeSalt
    /\ cryptoOut' = decrypt(text, deriveKey(p, EnvelopeSalt))
    /\ cryptoPhase' = "checked"
    /\ UNCHANGED <<cryptoPlain, cryptoPassword>>
    /\ UNCHANGED OthersCrypto

NextEnvelope ==
    \/ \E text \in EnvelopeTexts, p \in PasswordSamples : DecryptText(text, p)
    \/ CryptoReset

NextCrypto ==
    \/ \E m \in PlainSamples, p \in PasswordSamples, s \in SaltSamples, iv \in IvSamples :
            Encrypt(m, p, s, iv)
    \/ \E p \in PasswordSamples : Decrypt(p)
    \/ CryptoReset

(***************************************************************************)
(* storageService driver                                                   *)
(***************************************************************************)
StorageKeys ==
    {getStorageKey(e) : e \in StorageEmails} \cup {getUserKey(e) : e \in StorageEmails}

NoStoreOp ==
    [ op |-> "none", email |-> <<>>, password |-> <<>>, hadItem |-> FALSE,
      result |-> NoOutcome ]

InitStore ==
    /\ localStorage = [k \in StorageKeys |-> None]
    /\ saving = {}
    /\ storeLast = NoStoreOp
    /\ storeWritten = [e \in EmailSamples |-> None]

\* saveAccounts(accounts, deriveKey(p, SaltA), e) up to its await
SaveStart(accounts, p, e, iv) ==
    /\ Cardinality(saving) < MaxInFlight
    /\ saving' = saving \cup
            { [ accounts |-> accounts, password |-> p, email |-> e,
                text |-> saveAccountsText(accounts, deriveKey(p, SaltA), iv) ] }
    /\ saving' # saving
    /\ storeLast' = NoStoreOp
    /\ UNCHANGED <<localStorage, storeWritten>>
    /\ UNCHANGED OthersStore

\* encrypt resolves: saveAccounts writes the item and returns
SaveFinish(task) ==
    /\ task \in saving
    /\ saving' = saving \ {task}
    /\ localStorage' = setItem(localStorage, getStorageKey(task.email), task.text)
    /\ storeWritten' = [storeWritten EXCEPT ![task.email] =
                            Some([accounts |-> task.accounts, password |-> task.password])]
    /\ storeLast' = NoStoreOp
    /\ UNCHANGED OthersStore

\* loadAccounts(deriveKey(p, SaltA), e), from the call to the result
Load(p, e) ==
    /\ storeLast.op # "load"
    /\ storeLast' = [ op |-> "load", email |-> e, password |-> p,
                      hadItem |-> localStorage[getStorageKey(e)] # None,
                      result |-> loadAccounts(localStorage, deriveKey(p, SaltA), e) ]
    /\ UNCHANGED <<localStorage, saving, storeWritten>>
    /\ UNCHANGED OthersStore

\* the caller takes the result of loadAccounts
LoadReturn ==
    /\ storeLast.op = "load"
    /\ storeLast' = NoStoreOp
    /\ UNCHANGED <<localStorage, saving, storeWritten>>
    /\ UNCHANGED OthersStore

NextStore ==
    \/ \E accounts \in AccountListSamples, p \in MasterPasswords, e \in EmailSamples :
            SaveStart(accounts, p, e, IvA)
    \/ \E task \in saving : SaveFinish(task)
    \/ \E p \in MasterPasswords, e \in EmailSamples : Load(p, e)
    \/ LoadReturn

(***************************************************************************)
(* Specifications                                                          *)
(***************************************************************************)
(***************************************************************************)
(* useTotp: one instance of the hook, from its first render to its         *)
(* unmount.  A handler that changes the state ends with the render React   *)
(* schedules for it; a set state that keeps the value causes no render.    *)
(***************************************************************************)
period == 30

\* the first second of the clock: two seconds before a boundary of the period
FirstNow == 2 * period - 2

\* the last second the clock reaches
MaxNow == 62

TotpSecretSamples == { GoodSecretText, <<"M","Z","X","W">>, <<"J","1">> }

\* generateTOTP reads the clock when it is called: counter = floor(now / 30)
TotpCounterOf(now) == now \div period

TotpTable ==
    [s \in TotpSecretSamples, c \in 0..TotpCounterOf(MaxNow + 1) |-> generateHOTP(s, c)]

generateTOTP(secret, now) == TotpTable[secret, TotpCounterOf(now)]

InitialCode == <<"-","-","-","-","-","-">>
ErrorCode == <<"E","r","r","o","r">>

\* what update() hands to setCode for a computation started at counter
UpdateCode(secret, counter) ==
    IF TotpTable[secret, counter].ok THEN TotpTable[secret, counter].val ELSE ErrorCode

\* the value of the hook at a render
Returned(code, timeLeft, now) == Some([code |-> code, timeLeft |-> timeLeft, now |-> now])

NoTotpStep == [op |-> "none", started |-> FALSE, mounted |-> FALSE]

InitTotp ==
    /\ totpNow = FirstNow
    /\ totpSecret = None
    /\ totpPhase = "init"
    /\ totpTimer = None
    /\ totpCode = InitialCode
    /\ totpTimeLeft = 0
    /\ totpCounter = None
    /\ totpUpdates = {}
    /\ totpReported = None
    /\ totpLast = NoTotpStep

\* Date.now() moves on by a second; an effect runs right after its render
TotpClock ==
    /\ totpNow < MaxNow
    /\ totpPhase # "rendered"
    /\ totpNow' = totpNow + 1
    /\ UNCHANGED <<totpSecret, totpPhase, totpTimer, totpCode, totpTimeLeft, totpCounter,
                   totpUpdates, totpReported, totpLast>>
    /\ UNCHANGED OthersTotp

\* the first render: useState('------'), useState(0), useRef(null)
TotpMount(secret) ==
    /\ totpPhase = "init"
    /\ totpSecret' = Some(secret)
    /\ totpPhase' = "rendered"
    /\ totpReported' = Returned(totpCode, totpTimeLeft, totpNow)
    /\ totpLast' = [op |-> "render", started |-> FALSE, mounted |-> TRUE]
    /\ UNCHANGED <<totpNow, totpTimer, totpCode, totpTimeLeft, totpCounter, totpUpdates>>
    /\ UNCHANGED OthersTotp

\* a render with another secret prop: the state is the one of the last render
TotpSecretChange(secret) ==
    /\ totpPhase = "mounted"
    /\ totpSecret # Some(secret)
    /\ totpSecret' = Some(secret)
    /\ totpPhase' = "rendered"
    /\ totpReported' = Returned(totpCode, totpTimeLeft, totpNow)
    /\ totpLast' = [op |-> "render", started |-> FALSE, mounted |-> TRUE]
    /\ UNCHANGED <<totpNow, totpTimer, totpCode, totpTimeLeft, totpCounter, totpUpdates>>
    /\ UNCHANGED OthersTotp

\* the effect of [secret]: the cleanup of the previous effect (clearInterval),
\* setInterval, then the initial update of lines 39-42
TotpEffect ==
    /\ totpPhase = "rendered"
    /\ totpPhase' = "mounted"
    /\ totpTimer' = Some([secret |-> totpSecret[1], last |-> totpNow])
    /\ totpTimeLeft' = period - (totpNow % period)
    /\ totpCounter' = Some(TotpCounterOf(totpNow))
    /\ totpUpdates' = totpUpdates \cup {[secret |-> totpSecret[1], counter |-> TotpCounterOf(totpNow)]}
    /\ totpReported' = IF totpTimeLeft' # totpTimeLeft
                       THEN Returned(totpCode, totpTimeLeft', totpNow)
                       ELSE totpReported
    /\ totpLast' = [op |-> "effect", started |-> TRUE, mounted |-> TRUE]
    /\ UNCHANGED <<totpNow, totpSecret, totpCode>>
    /\ UNCHANGED OthersTotp

\* the setInterval callback with the test `newTimeLeft === period` in place
\* of the comparison of counters
TotpTickAtPeriodStart ==
    /\ totpPhase \in {"mounted", "rendered"}
    /\ totpTimer # None
    /\ totpNow > totpTimer[1].last
    /\ totpTimer' = Some([totpTimer[1] EXCEPT !.last = totpNow])
    /\ totpTimeLeft' = period - (totpNow % period)
    /\ totpCounter' = Some(TotpCounterOf(totpNow))
    /\ totpUpdates' =
            IF totpTimeLeft' = period
            THEN totpUpdates \cup {[secret |-> totpTimer[1].secret,
                                    counter |-> TotpCounterOf(totpNow)]}
            ELSE totpUpdates
    /\ totpReported' = IF totpTimeLeft' # totpTimeLeft
                       THEN Returned(totpCode, totpTimeLeft', totpNow)
                       ELSE totpReported
    /\ totpLast' = [op |-> "tick", started |-> (totpTimeLeft' = period), mounted |-> TRUE]
    /\ UNCHANGED <<totpNow, totpSecret, totpPhase, totpCode>>
    /\ UNCHANGED OthersTotp

\* the setInterval callback, lines 21-36: it fires a second or more after the
\* interval was set or fired last
TotpTick ==
    /\ totpPhase \in {"mounted", "rendered"}
    /\ totpTimer # None
    /\ totpNow > totpTimer[1].last
    /\ totpTimer' = Some([totpTimer[1] EXCEPT !.last = totpNow])
    /\ totpTimeLeft' = period - (totpNow % period)
    /\ totpCounter' = Some(TotpCounterOf(totpNow))
    /\ totpUpdates' =
            IF totpCounter # None /\ totpCounter[1] # TotpCounterOf(totpNow)
            THEN totpUpdates \cup {[secret |-> totpTimer[1].secret,
                                    counter |-> TotpCounterOf(totpNow)]}
            ELSE totpUpdates
    /\ totpReported' = IF totpTimeLeft' # totpTimeLeft
                       THEN Returned(totpCode, totpTimeLeft', totpNow)
                       ELSE totpReported
    /\ totpLast' = [op |-> "tick",
                    started |-> (totpCounter # None /\ totpCounter[1] # TotpCounterOf(totpNow)),
                    mounted |-> TRUE]
    /\ UNCHANGED <<totpNow, totpSecret, totpPhase, totpCode>>
    /\ UNCHANGED OthersTotp

\* generateTOTP settles: setCode(newCode), or setCode("Error") in the catch;
\* nothing tells update() that its effect was cleaned up
TotpUpdateSettle(u) ==
    /\ u \in totpUpdates
    /\ totpPhase # "init"
    /\ totpUpdates' = totpUpdates \ {u}
    /\ totpCode' = IF totpPhase = "unmounted" THEN totpCode
                   ELSE UpdateCode(u.secret, u.counter)
    /\ totpReported' = IF totpPhase # "unmounted" /\ totpCode' # totpCode
                       THEN Returned(totpCode', totpTimeLeft, totpNow)
                       ELSE totpReported
    /\ totpLast' = [op |-> "setCode", started |-> FALSE, mounted |-> totpPhase # "unmounted"]
    /\ UNCHANGED <<totpNow, totpSecret, totpPhase, totpTimer, totpTimeLeft, totpCounter>>
    /\ UNCHANGED OthersTotp

\* the unmount: the cleanup of the effect clears the interval
TotpUnmount ==
    /\ totpPhase = "mounted"
    /\ totpPhase' = "unmounted"
    /\ totpSecret' = None
    /\ totpTimer' = None
    /\ totpLast' = [op |-> "unmount", started |-> FALSE, mounted |-> FALSE]
    /\ UNCHANGED <<totpNow, totpCode, totpTimeLeft, totpCounter, totpUpdates, totpReported>>
    /\ UNCHANGED OthersTotp

NextTotp ==
    \/ TotpClock
    \/ \E secret \in TotpSecretSamples : TotpMount(secret)
    \/ \E secret \in TotpSecretSamples : TotpSecretChange(secret)
    \/ TotpEffect
    \/ TotpTick
    \/ \E u \in totpUpdates : TotpUpdateSettle(u)
    \/ TotpUnmount

\* a hook that stays mounted with a valid secret
NextTotpLive ==
    \/ TotpClock
    \/ TotpMount(GoodSecretText)
    \/ TotpEffect
    \/ TotpTick
    \/ \E u \in totpUpdates : TotpUpdateSettle(u)

\* the interval fires as long as the clock has moved on, every computation
\* settles, the effect of a render runs
TotpFairness ==
    /\ WF_vars(TotpEffect)
    /\ WF_vars(TotpTick)
    /\ WF_vars(\E u \in totpUpdates : TotpUpdateSettle(u))

(***************************************************************************)
(* App: the session state and the handlers of App.tsx.  An async handler   *)
(* runs up to an await that leaves it suspended while other handlers run:  *)
(* it is kept in appTasks with the values of its closure and resumes in a  *)
(* later step.  Awaits between which the handler touches neither the state *)
(* nor localStorage are taken together.                                    *)
(***************************************************************************)
\* handlers that may be suspended at once
MaxTasks == 2

\* a comparison of emails that keeps the letter case
toLowerCaseKept(t) == t

\* String.prototype.toLowerCase on one character and on a string
toLowerCaseChar(c) ==
    IF \E i \in 1..26 : base32Chars[i] = c
    THEN lowerChars[CHOOSE i \in 1..26 : base32Chars[i] = c]
    ELSE c

toLowerCase(t) == [i \in 1..Len(t) |-> toLowerCaseChar(t[i])]

\* new Uint8Array(userData.salt.match(/.{1,2}/g)!.map(byte => parseInt(byte, 16)))
\* (the conversion of the salt of the samples is computed once)
SaltHexA == BytesToHex(SaltA)
SaltFromHexA == HexToBytes(SaltHexA)
SaltHexB == BytesToHex(SaltB)
SaltFromHexB == HexToBytes(SaltHexB)
SaltOf(userData) ==
    IF userData.salt = SaltHexA THEN SaltFromHexA
    ELSE IF userData.salt = SaltHexB THEN SaltFromHexB
    ELSE HexToBytes(userData.salt)

NoKey == [material |-> <<>>, salt |-> <<>>]

Task(kind, email, key, key2, list, text, attached) ==
    [ kind |-> kind, email |-> email, key |-> key, key2 |-> key2, accounts |-> list,
      text |-> text, attached |-> attached ]

NoTask == Task("none", <<>>, NoKey, NoKey, <<>>, <<>>, FALSE)

\* the closure of a submission that was turned down before any await
Rejected(email) == Task("rejected", email, NoKey, NoKey, <<>>, <<>>, FALSE)

\* a handler that returned: its name, whether it resolved, its closure
Step(op, ok, task) == [op |-> op, ok |-> ok, task |-> task]

\* no handler returned in the last step
NoStep == Step("none", TRUE, NoTask)

\* what the user may type
\* email, password, confirmation and the salt crypto.getRandomValues draws
RegisterInputs == { <<EmailA, PwA, PwA, SaltA>>, <<AdminEmail, PwA, PwA, SaltA>> }
LoginInputs == { <<EmailA, PwA>>, <<EmailA, PwB>> }
ShortPassword == << "p", "w" >>
\* current password, new password, confirmation
ChangeInputs ==
    { <<PwA, PwB, PwB>>, <<PwB, PwA, PwA>>, <<PwA, PwA, PwA>>,
      <<PwA, ShortPassword, ShortPassword>>, <<PwA, PwB, PwA>> }
\* the accounts the add modal hands over and Date.now() at that moment
AddInputs == { <<Account1, 17>>, <<Account2, 18>> }

\* AuthScreen.isLoading: one of its submissions (login, admin login,
\* registration) has not returned; the submit button is disabled
AuthKinds == { "register", "login", "loaded", "adminLogin", "adminLoaded" }
AuthLoading == \E t \in appTasks : t.kind \in AuthKinds

InitApp ==
    /\ appMounted = FALSE
    /\ appAccounts = <<>>
    /\ appMasterKey = None
    /\ appCurrentUser = None
    /\ appError = ""
    /\ appChangeOpen = FALSE
    /\ appChangeLoading = FALSE
    /\ appTasks = {}
    /\ appLast = NoStep

\* the mount effect, lines 22-39: ensureAdminExists up to its first await
AppMount ==
    /\ ~appMounted
    /\ appMounted' = TRUE
    /\ IF ~userExists(localStorage, AdminEmail)
       THEN /\ localStorage' = saveUser(localStorage, AdminEmail, BytesToHex(SaltA))
            /\ appTasks' = appTasks \cup
                    { Task("admin", AdminEmail, deriveKey(AdminPassword, SaltA), NoKey, <<>>,
                           saveAccountsText(<<>>, deriveKey(AdminPassword, SaltA), IvA), FALSE) }
       ELSE UNCHANGED <<localStorage, appTasks>>
    /\ appLast' = NoStep
    /\ UNCHANGED <<appAccounts, appMasterKey, appCurrentUser, appError, appChangeOpen,
                   appChangeLoading>>
    /\ UNCHANGED OthersApp

\* ensureAdminExists after encrypt: localStorage.setItem of saveAccounts
AdminFinish(t) ==
    /\ t \in appTasks
    /\ t.kind = "admin"
    /\ appTasks' = appTasks \ {t}
    /\ localStorage' = setItem(localStorage, getStorageKey(t.email), t.text)
    /\ appLast' = Step("admin", TRUE, t)
    /\ UNCHANGED <<appMounted, appAccounts, appMasterKey, appCurrentUser, appError,
                   appChangeOpen, appChangeLoading>>
    /\ UNCHANGED OthersApp

\* /^[^\s@]+@[^\s@]+\.[^\s@]+$/.test(email)
EmailRegexTest(email) ==
    /\ \A i \in 1..Len(email) : ~IsSpace(email[i])
    /\ Cardinality({ i \in 1..Len(email) : email[i] = "@" }) = 1
    /\ \E i \in 2..Len(email), j \in 1..(Len(email) - 1) :
          email[i] = "@" /\ email[j] = "." /\ j > i + 1

\* AuthScreen.handleSubmit in the register view, lines 47-70, and
\* handleRegister up to its first await, lines 95-109
Register(email, password, confirmPassword, salt) ==
    /\ appMounted
    /\ appCurrentUser = None
    /\ ~adminPanelOpen
    /\ ~AuthLoading
    /\ IF \/ toLowerCase(email) = toLowerCase(AdminEmail)
          \/ password # confirmPassword
          \/ Len(password) < 8
          \/ ~EmailRegexTest(email)
       THEN /\ appLast' = Step("register", FALSE, Rejected(email))
            /\ UNCHANGED <<localStorage, appTasks, appError>>
       ELSE IF toLowerCase(email) = toLowerCase(AdminEmail)
       THEN /\ appError' = "reserved"
            /\ appLast' = Step("register", FALSE, Rejected(email))
            /\ UNCHANGED <<localStorage, appTasks>>
       ELSE IF userExists(localStorage, email)
       THEN /\ appError' = "in use"
            /\ appLast' = Step("register", FALSE, Rejected(email))
            /\ UNCHANGED <<localStorage, appTasks>>
       ELSE /\ appError' = ""
            /\ localStorage' = saveUser(localStorage, email, BytesToHex(salt))
            /\ appTasks' = appTasks \cup
                    { Task("register", email, deriveKey(password, salt), NoKey, <<>>,
                           saveAccountsText(<<>>, deriveKey(password, salt), IvA), FALSE) }
            /\ appLast' = NoStep
    /\ UNCHANGED <<appMounted, appAccounts, appMasterKey, appCurrentUser, appChangeOpen,
                   appChangeLoading>>
    /\ UNCHANGED OthersApp

\* handleRegister from the setItem of saveAccounts on, lines 110-113
RegisterFinish(t) ==
    /\ t \in appTasks
    /\ t.kind = "register"
    /\ appTasks' = appTasks \ {t}
    /\ localStorage' = setItem(localStorage, getStorageKey(t.email), t.text)
    /\ appMasterKey' = Some(t.key)
    /\ appAccounts' = <<>>
    /\ appCurrentUser' = Some(t.email)
    /\ appLast' = Step("registered", TRUE, t)
    /\ UNCHANGED <<appMounted, appError, appChangeOpen, appChangeLoading>>
    /\ UNCHANGED OthersApp

\* handleLogin up to await deriveKey, lines 41-55
Login(email, password) ==
    /\ appMounted
    /\ appCurrentUser = None
    /\ ~adminPanelOpen
    /\ ~AuthLoading
    /\ IF ~userExists(localStorage, email)
       THEN /\ appError' = "not found"
            /\ appLast' = Step("login", FALSE, NoTask)
            /\ UNCHANGED appTasks
       ELSE \E userData \in {loadUser(localStorage, email)} :
            IF userData = None
            THEN /\ appError' = "wrong password or corrupt data"
                 /\ appLast' = Step("login", FALSE, NoTask)
                 /\ UNCHANGED appTasks
            ELSE /\ appError' = ""
                 /\ appTasks' = appTasks \cup
                        { Task("login", email, deriveKey(password, SaltOf(userData[1])),
                               NoKey, <<>>, <<>>, FALSE) }
                 /\ appLast' = NoStep
    /\ UNCHANGED <<localStorage, appMounted, appAccounts, appMasterKey, appCurrentUser,
                   appChangeOpen, appChangeLoading>>
    /\ UNCHANGED OthersApp

\* handleLogin line 56 up to the await inside loadAccounts: the item is read
LoginLoad(t) ==
    /\ t \in appTasks
    /\ t.kind = "login"
    /\ appTasks' = (appTasks \ {t}) \cup
            { [t EXCEPT !.kind = "loaded",
                        !.accounts = loadAccounts(localStorage, t.key, t.email)] }
    /\ appLast' = NoStep
    /\ UNCHANGED <<localStorage, appMounted, appAccounts, appMasterKey, appCurrentUser,
                   appError, appChangeOpen, appChangeLoading>>
    /\ UNCHANGED OthersApp

\* handleLogin with a message of its own for an envelope that does not split
LoginFinishFormatMessage(t) ==
    /\ t \in appTasks
    /\ t.kind = "loaded"
    /\ appTasks' = appTasks \ {t}
    /\ IF t.accounts.ok
       THEN /\ appMasterKey' = Some(t.key)
            /\ appAccounts' = t.accounts.val
            /\ appCurrentUser' = Some(t.email)
            /\ UNCHANGED appError
       ELSE /\ appError' = IF t.accounts.err = "Invalid encrypted data format"
                           THEN "corrupt data"
                           ELSE "wrong password or corrupt data"
            /\ UNCHANGED <<appMasterKey, appAccounts, appCurrentUser>>
    /\ appLast' = Step("loggedIn", t.accounts.ok, t)
    /\ UNCHANGED <<localStorage, appMounted, appChangeOpen, appChangeLoading>>
    /\ UNCHANGED OthersApp

\* handleLogin lines 57-64
LoginFinish(t) ==
    /\ t \in appTasks
    /\ t.kind = "loaded"
    /\ appTasks' = appTasks \ {t}
    /\ IF t.accounts.ok
       THEN /\ appMasterKey' = Some(t.key)
            /\ appAccounts' = t.accounts.val
            /\ appCurrentUser' = Some(t.email)
            /\ UNCHANGED appError
       ELSE /\ appError' = "wrong password or corrupt data"
            /\ UNCHANGED <<appMasterKey, appAccounts, appCurrentUser>>
    /\ appLast' = Step("loggedIn", t.accounts.ok, t)
    /\ UNCHANGED <<localStorage, appMounted, appChangeOpen, appChangeLoading>>
    /\ UNCHANGED OthersApp

\* the button of line 229: a fresh ChangePasswordModal is mounted
OpenChangePassword ==
    /\ appCurrentUser # None
    /\ ~appChangeOpen
    /\ appChangeOpen' = TRUE
    /\ appChangeLoading' = FALSE
    /\ appLast' = NoStep
    /\ UNCHANGED <<localStorage, appMounted, appAccounts, appMasterKey, appCurrentUser,
                   appError, appTasks>>
    /\ UNCHANGED OthersApp

\* onClose (Cancelar, the X, the timer after a success): the modal is
\* unmounted; a handleSubmit in flight goes on without it
CloseChangePassword ==
    /\ appChangeOpen
    /\ appChangeOpen' = FALSE
    /\ appChangeLoading' = FALSE
    /\ appTasks' = { [t EXCEPT !.attached = FALSE] : t \in appTasks }
    /\ appLast' = NoStep
    /\ UNCHANGED <<localStorage, appMounted, appAccounts, appMasterKey, appCurrentUser,
                   appError>>
    /\ UNCHANGED OthersApp

\* ChangePasswordModal.handleSubmit lines 19-39 and handleChangePassword up
\* to await deriveKey, lines 121-133
ChangePasswordSubmit(currentPassword, newPassword, confirmPassword) ==
    /\ appChangeOpen
    /\ appCurrentUser # None
    /\ ~appChangeLoading
    /\ Cardinality(appTasks) < MaxTasks
    /\ IF \/ newPassword # confirmPassword
          \/ Len(newPassword) < 8
          \/ currentPassword = newPassword
          \/ appMasterKey = None
       THEN /\ appLast' = Step("changePassword", FALSE, NoTask)
            /\ UNCHANGED <<appTasks, appChangeLoading>>
       ELSE \E userData \in {loadUser(localStorage, appCurrentUser[1])} :
            IF userData = None
            THEN /\ appLast' = Step("changePassword", FALSE, NoTask)
                 /\ UNCHANGED <<appTasks, appChangeLoading>>
            ELSE /\ appTasks' = appTasks \cup
                        { Task("change", appCurrentUser[1],
                               deriveKey(currentPassword, SaltOf(userData[1])),
                               deriveKey(newPassword, SaltOf(userData[1])),
                               appAccounts, <<>>, TRUE) }
                 /\ appChangeLoading' = TRUE
                 /\ appLast' = NoStep
    /\ UNCHANGED <<localStorage, appMounted, appAccounts, appMasterKey, appCurrentUser,
                   appError, appChangeOpen>>
    /\ UNCHANGED OthersApp

\* handleChangePassword lines 134-141: loadAccounts with the verification
\* key on the item as it is now; then deriveKey and saveAccounts up to the
\* await of encrypt, with the accounts of the closure
ChangePasswordVerify(t) ==
    /\ t \in appTasks
    /\ t.kind = "change"
    /\ IF loadAccounts(localStorage, t.key, t.email).ok
       THEN /\ appTasks' = (appTasks \ {t}) \cup
                    { [t EXCEPT !.kind = "changing",
                                !.text = saveAccountsText(t.accounts, t.key2, IvA)] }
            /\ appLast' = NoStep
            /\ UNCHANGED appChangeLoading
       ELSE /\ appTasks' = appTasks \ {t}
            /\ appLast' = Step("changePassword", FALSE, t)
            /\ appChangeLoading' = IF t.attached THEN FALSE ELSE appChangeLoading
    /\ UNCHANGED <<localStorage, appMounted, appAccounts, appMasterKey, appCurrentUser,
                   appError, appChangeOpen>>
    /\ UNCHANGED OthersApp

\* handleChangePassword from the setItem of saveAccounts on, lines 141-143,
\* and the rest of handleSubmit
ChangePasswordFinish(t) ==
    /\ t \in appTasks
    /\ t.kind = "changing"
    /\ appTasks' = appTasks \ {t}
    /\ localStorage' = setItem(localStorage, getStorageKey(t.email), t.text)
    /\ appMasterKey' = Some(t.key2)
    /\ appChangeLoading' = IF t.attached THEN FALSE ELSE appChangeLoading
    /\ appLast' = Step("changePassword", TRUE, t)
    /\ UNCHANGED <<appMounted, appAccounts, appCurrentUser, appError, appChangeOpen>>
    /\ UNCHANGED OthersApp

\* persistAccounts(updatedAccounts) up to the await of encrypt, lines 147-150,
\* with the masterKey and currentUser of the render
PersistTasks(updatedAccounts) ==
    IF appMasterKey = None \/ appCurrentUser = None THEN {}
    ELSE { Task("persist", appCurrentUser[1], appMasterKey[1], NoKey, updatedAccounts,
                saveAccountsText(updatedAccounts, appMasterKey[1], IvA), FALSE) }

\* no account of the session has the id: Date.now() has moved on since they
\* were added
IdUnused(id) == \A i \in 1..Len(appAccounts) : appAccounts[i].id # id

\* addAccount lines 157-161; the list is reachable when no modal covers it
AddAccount(account, now) ==
    /\ appCurrentUser # None
    /\ ~appChangeOpen
    /\ Cardinality(appTasks) < MaxTasks
    /\ appAccounts' = Append(appAccounts, [account EXCEPT !.id = NatToString(now)])
    /\ appTasks' = appTasks \cup PersistTasks(appAccounts')
    /\ appLast' = NoStep
    /\ UNCHANGED <<localStorage, appMounted, appMasterKey, appCurrentUser, appError,
                   appChangeOpen, appChangeLoading>>
    /\ UNCHANGED OthersApp

\* the id addMultipleAccounts gives the entry at index: `${Date.now()}-${index}`
MultiId(now, index) == NatToString(now) \o << "-" >> \o NatToString(index)

\* addMultipleAccounts lines 165-174
AddMultipleAccounts(newAccounts, now) ==
    /\ appCurrentUser # None
    /\ ~appChangeOpen
    /\ Cardinality(appTasks) < MaxTasks
    /\ appAccounts' = appAccounts \o
            [i \in 1..Len(newAccounts) |-> [newAccounts[i] EXCEPT !.id = MultiId(now, i - 1)]]
    /\ appTasks' = appTasks \cup PersistTasks(appAccounts')
    /\ appLast' = NoStep
    /\ UNCHANGED <<localStorage, appMounted, appMasterKey, appCurrentUser, appError,
                   appChangeOpen, appChangeLoading>>
    /\ UNCHANGED OthersApp

\* accounts.filter(acc => acc.id !== id)
WithoutId(list, id) == SelectSeq(list, LAMBDA acc : acc.id # id)

\* deleteAccount lines 176-179
DeleteAccount(id) ==
    /\ appCurrentUser # None
    /\ ~appChangeOpen
    /\ Cardinality(appTasks) < MaxTasks
    /\ \E i \in 1..Len(appAccounts) : appAccounts[i].id = id
    /\ appAccounts' = WithoutId(appAccounts, id)
    /\ appTasks' = appTasks \cup PersistTasks(appAccounts')
    /\ appLast' = NoStep
    /\ UNCHANGED <<localStorage, appMounted, appMasterKey, appCurrentUser, appError,
                   appChangeOpen, appChangeLoading>>
    /\ UNCHANGED OthersApp

\* persistAccounts after encrypt: localStorage.setItem of saveAccounts
PersistFinish(t) ==
    /\ t \in appTasks
    /\ t.kind = "persist"
    /\ appTasks' = appTasks \ {t}
    /\ localStorage' = setItem(localStorage, getStorageKey(t.email), t.text)
    /\ appLast' = Step("persisted", TRUE, t)
    /\ UNCHANGED <<appMounted, appAccounts, appMasterKey, appCurrentUser, appError,
                   appChangeOpen, appChangeLoading>>
    /\ UNCHANGED OthersApp

\* handleLogout lines 182-188
Logout ==
    /\ appCurrentUser # None
    /\ ~appChangeOpen
    /\ appMasterKey' = None
    /\ appAccounts' = <<>>
    /\ appCurrentUser' = None
    /\ appError' = ""
    /\ appLast' = NoStep
    /\ UNCHANGED <<localStorage, appMounted, appChangeOpen, appChangeLoading, appTasks>>
    /\ UNCHANGED OthersApp

Next ==
    \/ AppMount
    \/ \E t \in appTasks : AdminFinish(t)
    \/ \E in \in RegisterInputs : Register(in[1], in[2], in[3], in[4])
    \/ \E t \in appTasks : RegisterFinish(t)
    \/ \E in \in LoginInputs : Login(in[1], in[2])
    \/ \E t \in appTasks : LoginLoad(t)
    \/ \E t \in appTasks : LoginFinish(t)
    \/ OpenChangePassword
    \/ CloseChangePassword
    \/ \E in \in ChangeInputs : ChangePasswordSubmit(in[1], in[2], in[3])
    \/ \E t \in appTasks : ChangePasswordVerify(t)
    \/ \E t \in appTasks : ChangePasswordFinish(t)
    \/ \E in \in AddInputs : IdUnused(NatToString(in[2])) /\ AddAccount(in[1], in[2])
    \/ \E id \in {NatToString(in[2]) : in \in AddInputs} : DeleteAccount(id)
    \/ \E t \in appTasks : PersistFinish(t)
    \/ Logout

\* the lists the add modal hands to addMultipleAccounts and Date.now() then
MultiInputs == { << <<Account1>>, 19 >> }

\* the accounts handed to addAccount and Date.now() then: two of them in the
\* same millisecond
SameTimeInputs == { <<Account1, 17>>, <<Account2, 17>> }

\* the longest account list of a session
MaxList == 2

\* the ids a session's accounts can have
SessionIds ==
    { NatToString(in[2]) : in \in SameTimeInputs }
    \cup UNION { { MultiId(in[2], i - 1) : i \in 1..Len(in[1]) } : in \in MultiInputs }

\* sessions of a user and of the administrator's email, and the password
\* change of a session
NextChange ==
    \/ AppMount
    \/ \E t \in appTasks : AdminFinish(t)
    \/ Register(EmailA, PwA, PwA, SaltA)
    \/ \E t \in appTasks : RegisterFinish(t)
    \/ \E in \in { <<EmailA, PwA>>, <<EmailA, PwB>>, <<AdminEmail, PwA>> } : Login(in[1], in[2])
    \/ \E t \in appTasks : LoginLoad(t)
    \/ \E t \in appTasks : LoginFinish(t)
    \/ OpenChangePassword
    \/ CloseChangePassword
    \/ \E in \in { <<PwA, PwB, PwB>>, <<PwB, PwA, PwA>>, <<PwA, PwB, PwA>> } :
          ChangePasswordSubmit(in[1], in[2], in[3])
    \/ \E t \in appTasks : ChangePasswordVerify(t)
    \/ \E t \in appTasks : ChangePasswordFinish(t)
    \/ Logout

\* one session and the changes of its account list
NextAccounts ==
    \/ AppMount
    \/ \E t \in appTasks : AdminFinish(t)
    \/ Register(EmailA, PwA, PwA, SaltA)
    \/ \E t \in appTasks : RegisterFinish(t)
    \/ \E in \in SameTimeInputs : Len(appAccounts) < MaxList /\ AddAccount(in[1], in[2])
    \/ \E in \in MultiInputs :
          Len(appAccounts) + Len(in[1]) <= MaxList /\ AddMultipleAccounts(in[1], in[2])
    \/ \E id \in SessionIds : DeleteAccount(id)
    \/ \E t \in appTasks : PersistFinish(t)

(***************************************************************************)
(* The administrator: handleAdminLogin, AdminPanel, EditUserModal and the   *)
(* reset link of AuthScreen, next to the App's own handlers                 *)
(***************************************************************************)
MaxResets == 1

\* getAllUsers(): the well-formed records under the keys totp-user-*
getAllUsers(storage) ==
    { u[1] : u \in { loadUser(storage, e) : e \in StorageEmails } \ {None} }

\* fetchUsers: allUsers.filter(u => u.email !== currentUserEmail)
fetchUsers(storage) == { u \in getAllUsers(storage) : u.email # AdminEmail }

InitAdmin ==
    /\ adminPanelOpen = FALSE
    /\ adminUsers = {}
    /\ adminSelected = None
    /\ adminEditLoading = FALSE

\* AuthScreen.handleSubmit in the admin view and handleAdminLogin up to await
\* deriveKey, lines 67-81
AdminLogin(email, password) ==
    /\ appMounted
    /\ appCurrentUser = None
    /\ ~adminPanelOpen
    /\ ~AuthLoading
    /\ IF toLowerCase(email) # toLowerCase(AdminEmail)
       THEN /\ appError' = "admin denied"
            /\ appLast' = Step("adminLogin", FALSE, NoTask)
            /\ UNCHANGED appTasks
       ELSE \E userData \in {loadUser(localStorage, email)} :
            IF userData = None
            THEN /\ appError' = "admin invalid"
                 /\ appLast' = Step("adminLogin", FALSE, NoTask)
                 /\ UNCHANGED appTasks
            ELSE /\ appError' = ""
                 /\ appTasks' = appTasks \cup
                        { Task("adminLogin", email, deriveKey(password, SaltOf(userData[1])),
                               NoKey, <<>>, <<>>, FALSE) }
                 /\ appLast' = NoStep
    /\ UNCHANGED <<localStorage, appMounted, appAccounts, appMasterKey, appCurrentUser,
                   appChangeOpen, appChangeLoading>>
    /\ UNCHANGED OthersApp

\* handleAdminLogin line 84 up to the await inside loadAccounts
AdminLoginLoad(t) ==
    /\ t \in appTasks
    /\ t.kind = "adminLogin"
    /\ appTasks' = (appTasks \ {t}) \cup
            { [t EXCEPT !.kind = "adminLoaded",
                        !.accounts = loadAccounts(localStorage, t.key, t.email)] }
    /\ appLast' = NoStep
    /\ UNCHANGED <<localStorage, appMounted, appAccounts, appMasterKey, appCurrentUser,
                   appError, appChangeOpen, appChangeLoading>>
    /\ UNCHANGED OthersApp

\* handleAdminLogin lines 86-92; the panel that opens runs fetchUsers
AdminLoginFinish(t) ==
    /\ t \in appTasks
    /\ t.kind = "adminLoaded"
    /\ appTasks' = appTasks \ {t}
    /\ IF t.accounts.ok
       THEN /\ adminPanelOpen' = TRUE
            /\ adminUsers' = fetchUsers(localStorage)
            /\ UNCHANGED appError
       ELSE /\ appError' = "admin invalid"
            /\ UNCHANGED <<adminPanelOpen, adminUsers>>
    /\ appLast' = Step("adminLoggedIn", t.accounts.ok, t)
    /\ UNCHANGED <<localStorage, appMounted, appAccounts, appMasterKey, appCurrentUser,
                   appChangeOpen, appChangeLoading, adminSelected, adminEditLoading>>
    /\ UNCHANGED OthersAdmin

\* AuthScreen.handleForgotPassword, lines 80-103, with the dialog confirmed
ForgotPassword(email) ==
    /\ appMounted
    /\ appCurrentUser = None
    /\ ~adminPanelOpen
    /\ Trim(email) # <<>>
    /\ userExists(localStorage, email)
    /\ localStorage' = deleteUser(localStorage, email)
    /\ appLast' = Step("forgotPassword", TRUE, [NoTask EXCEPT !.email = email])
    /\ UNCHANGED <<appMounted, appAccounts, appMasterKey, appCurrentUser, appError,
                   appChangeOpen, appChangeLoading, appTasks>>
    /\ UNCHANGED OthersApp

\* onClose of the AdminPanel, part_005 lines 201-204
PanelClose ==
    /\ adminPanelOpen
    /\ adminSelected = None
    /\ adminPanelOpen' = FALSE
    /\ adminUsers' = {}
    /\ appError' = ""
    /\ appLast' = NoStep
    /\ UNCHANGED <<localStorage, appMounted, appAccounts, appMasterKey, appCurrentUser,
                   appChangeOpen, appChangeLoading, appTasks, adminSelected,
                   adminEditLoading>>
    /\ UNCHANGED OthersAdmin

\* handleDeleteUser with the dialog confirmed
PanelDelete(user) ==
    /\ adminPanelOpen
    /\ adminSelected = None
    /\ user \in adminUsers
    /\ localStorage' = deleteUser(localStorage, user.email)
    /\ adminUsers' = fetchUsers(localStorage')
    /\ appLast' = Step("deleteUser", TRUE, [NoTask EXCEPT !.email = user.email])
    /\ UNCHANGED <<appMounted, appAccounts, appMasterKey, appCurrentUser, appError,
                   appChangeOpen, appChangeLoading, appTasks, adminPanelOpen, adminSelected,
                   adminEditLoading>>
    /\ UNCHANGED OthersAdmin

\* handleEditUser: a fresh EditUserModal on the listed user
PanelEdit(user) ==
    /\ adminPanelOpen
    /\ adminSelected = None
    /\ user \in adminUsers
    /\ adminSelected' = Some(user)
    /\ adminEditLoading' = FALSE
    /\ appLast' = NoStep
    /\ UNCHANGED <<localStorage, appMounted, appAccounts, appMasterKey, appCurrentUser,
                   appError, appChangeOpen, appChangeLoading, appTasks, adminPanelOpen,
                   adminUsers>>
    /\ UNCHANGED OthersAdmin

\* handleCloseEditModal (the X, Cancelar, the timer after a success): the
\* modal is unmounted; a handleSubmit in flight goes on without it
EditClose ==
    /\ adminPanelOpen
    /\ adminSelected # None
    /\ adminSelected' = None
    /\ adminEditLoading' = FALSE
    /\ adminUsers' = fetchUsers(localStorage)
    /\ appTasks' = { [t EXCEPT !.attached = FALSE] : t \in appTasks }
    /\ appLast' = NoStep
    /\ UNCHANGED <<localStorage, appMounted, appAccounts, appMasterKey, appCurrentUser,
                   appError, appChangeOpen, appChangeLoading, adminPanelOpen>>
    /\ UNCHANGED OthersAdmin

\* EditUserModal.handleSubmit up to await deriveKey, lines 23-65: the email
\* and password fields as typed, and the answer to window.confirm
EditSubmit(newEmail, newPassword, confirmation) ==
    /\ adminSelected # None
    /\ ~adminEditLoading
    /\ Cardinality({ t \in appTasks : t.kind = "reset" }) < MaxResets
    /\ \E user \in { adminSelected[1] } :
       \E renamed \in
            { IF newEmail = user.email THEN [ok |-> TRUE, storage |-> localStorage]
              ELSE IF Trim(newEmail) = <<>> \/ ~EmailRegexTest(newEmail)
                        \/ userExists(localStorage, newEmail)
                   THEN [ok |-> FALSE, storage |-> localStorage]
                   ELSE updateUserEmail(localStorage, user.email, newEmail) } :
       \E finalEmail \in { IF newEmail # user.email /\ renamed.ok THEN newEmail
                            ELSE user.email } :
         /\ localStorage' = renamed.storage
         /\ IF ~renamed.ok \/ (newPassword # <<>> /\ Len(newPassword) < 8)
            THEN /\ appLast' = Step("editUser", FALSE, [NoTask EXCEPT !.email = finalEmail])
                 /\ UNCHANGED <<appTasks, adminEditLoading>>
            ELSE IF newPassword = <<>> \/ ~confirmation
            THEN /\ appLast' = Step("editUser", newEmail # user.email,
                                    [NoTask EXCEPT !.email = finalEmail])
                 /\ UNCHANGED <<appTasks, adminEditLoading>>
            ELSE \E userData \in { loadUser(renamed.storage, finalEmail) } :
                 IF userData = None
                 THEN /\ appLast' = Step("editUser", TRUE,
                                         [NoTask EXCEPT !.email = finalEmail])
                      /\ UNCHANGED <<appTasks, adminEditLoading>>
                 ELSE \E newKey \in { deriveKey(newPassword, SaltOf(userData[1])) } :
                      /\ appTasks' = appTasks \cup
                            { Task("reset", finalEmail, newKey, NoKey, <<>>,
                                   saveAccountsText(<<>>, newKey, IvA), TRUE) }
                      /\ adminEditLoading' = TRUE
                      /\ appLast' = NoStep
    /\ UNCHANGED <<appMounted, appAccounts, appMasterKey, appCurrentUser, appError,
                   appChangeOpen, appChangeLoading, adminPanelOpen, adminUsers,
                   adminSelected>>
    /\ UNCHANGED OthersAdmin

\* EditUserModal.handleSubmit from the setItem of saveAccounts on, lines 65-98
ResetFinish(t) ==
    /\ t \in appTasks
    /\ t.kind = "reset"
    /\ appTasks' = appTasks \ {t}
    /\ localStorage' = setItem(localStorage, getStorageKey(t.email), t.text)
    /\ adminEditLoading' = IF t.attached THEN FALSE ELSE adminEditLoading
    /\ appLast' = Step("reset", TRUE, t)
    /\ UNCHANGED <<appMounted, appAccounts, appMasterKey, appCurrentUser, appError,
                   appChangeOpen, appChangeLoading, adminPanelOpen, adminUsers,
                   adminSelected>>
    /\ UNCHANGED OthersAdmin

\* what the administrator and the users may type
AdminRegisterInputs ==
    { <<EmailA, PwA, PwA, SaltA>>, <<EmailA, PwA, PwA, SaltB>>,
      <<AdminEmail, PwA, PwA, SaltA>>, <<AdminEmailCased, PwA, PwA, SaltB>>,
      <<EmailA, PwA, PwB, SaltA>> }
AdminLoginInputs ==
    { <<AdminEmail, AdminPassword>>, <<AdminEmail, PwA>>, <<EmailA, PwA>>,
      <<AdminEmailCased, AdminPassword>> }
UserLoginInputs == { <<EmailA, PwA>>, <<EmailB, PwB>> }
\* the email field, the password field and the answer to window.confirm
EditInputs ==
    { <<e, <<>>, TRUE>> : e \in EmailSamples }
    \cup { <<e, PwB, c>> : e \in EmailSamples, c \in BOOLEAN }
    \cup { <<EmailA, ShortPassword, TRUE>>, <<EmailB, ShortPassword, TRUE>>,
           <<AdminEmail, <<>>, TRUE>> }

NextAdmin ==
    \/ AppMount
    \/ \E t \in appTasks : AdminFinish(t)
    \/ \E in \in AdminRegisterInputs : Register(in[1], in[2], in[3], in[4])
    \/ \E t \in appTasks : RegisterFinish(t)
    \/ \E in \in UserLoginInputs : Login(in[1], in[2])
    \/ \E t \in appTasks : LoginLoad(t)
    \/ \E t \in appTasks : LoginFinish(t)
    \/ Logout
    \/ \E in \in AdminLoginInputs : AdminLogin(in[1], in[2])
    \/ \E t \in appTasks : AdminLoginLoad(t)
    \/ \E t \in appTasks : AdminLoginFinish(t)
    \/ \E email \in EmailSamples : ForgotPassword(email)
    \/ PanelClose
    \/ \E user \in adminUsers : PanelDelete(user)
    \/ \E user \in adminUsers : PanelEdit(user)
    \/ EditClose
    \/ \E in \in EditInputs : EditSubmit(in[1], in[2], in[3])
    \/ \E t \in appTasks : ResetFinish(t)

\* the forms of AuthScreen alone: registration, login, logout, the reset link
NextRegister ==
    \/ AppMount
    \/ \E t \in appTasks : AdminFinish(t)
    \/ \E in \in AdminRegisterInputs : Register(in[1], in[2], in[3], in[4])
    \/ \E t \in appTasks : RegisterFinish(t)
    \/ \E in \in UserLoginInputs : Login(in[1], in[2])
    \/ \E t \in appTasks : LoginLoad(t)
    \/ \E t \in appTasks : LoginFinish(t)
    \/ Logout
    \/ \E email \in UserEmails : ForgotPassword(email)

\* what damage leaves of a stored envelope: a text without the delimiter, the
\* iv field alone, the last digit of the tag changed, the tag cut short
Damaged(text) ==
    { << "x" >>,
      SubSeq(text, 1, Len(EnvelopeIvHex) + 1),
      [text EXCEPT ![Len(text)] = IF text[Len(text)] = "0" THEN "1" ELSE "0"],
      SubSeq(text, 1, Len(text) - 2) }

\* the account blob of a user is damaged in localStorage, outside the program:
\* what getItem returns afterwards, storageService line 47
Tamper(email) ==
    /\ appMounted
    /\ localStorage[getStorageKey(email)] # None
    /\ Len(localStorage[getStorageKey(email)][1]) > Len(EnvelopeIvHex) + 1
    /\ \E text \in Damaged(localStorage[getStorageKey(email)][1]) :
          localStorage' = setItem(localStorage, getStorageKey(email), text)
    /\ appLast' = NoStep
    /\ UNCHANGED <<appMounted, appAccounts, appMasterKey, appCurrentUser, appError,
                   appChangeOpen, appChangeLoading, appTasks>>
    /\ UNCHANGED OthersApp

\* registration and login of users whose blobs get damaged
NextTamper ==
    \/ AppMount
    \/ \E t \in appTasks : AdminFinish(t)
    \/ Register(EmailA, PwA, PwA, SaltA)
    \/ \E t \in appTasks : RegisterFinish(t)
    \/ \E in \in LoginInputs : Login(in[1], in[2])
    \/ \E t \in appTasks : LoginLoad(t)
    \/ \E t \in appTasks : LoginFinish(t)
    \/ Logout
    \/ Tamper(EmailA)

\* the same with the password change of a session; a change or a reset is
\* started while no other handler is suspended
NextSalt ==
    \/ AppMount
    \/ \E t \in appTasks : AdminFinish(t)
    \/ \E salt \in {SaltA, SaltB} : Register(EmailA, PwA, PwA, salt)
    \/ \E t \in appTasks : RegisterFinish(t)
    \/ \E email \in EmailSamples : Login(email, PwA)
    \/ \E t \in appTasks : LoginLoad(t)
    \/ \E t \in appTasks : LoginFinish(t)
    \/ Logout
    \/ AdminLogin(AdminEmail, AdminPassword)
    \/ \E t \in appTasks : AdminLoginLoad(t)
    \/ \E t \in appTasks : AdminLoginFinish(t)
    \/ ForgotPassword(EmailA)
    \/ PanelClose
    \/ \E user \in adminUsers : PanelDelete(user)
    \/ \E user \in adminUsers : PanelEdit(user)
    \/ EditClose
    \/ \E in \in { <<EmailB, <<>>, TRUE>>, <<EmailA, PwB, TRUE>>, <<EmailB, PwB, TRUE>> } :
          appTasks = {} /\ EditSubmit(in[1], in[2], in[3])
    \/ \E t \in appTasks : ResetFinish(t)
    \/ OpenChangePassword
    \/ CloseChangePassword
    \/ appTasks = {} /\ ChangePasswordSubmit(PwA, PwB, PwB)
    \/ \E t \in appTasks : ChangePasswordVerify(t)
    \/ \E t \in appTasks : ChangePasswordFinish(t)

(***************************************************************************)
(* storageService on the two namespaces: user records (totp-user-<email>)  *)
(* and account blobs (totp-accounts-<email>), driven call by call          *)
(***************************************************************************)
\* the blobs a session of a user leaves: the empty list and one account
UserBlobLists == { <<>>, << Account1 >> }

NoUsersOp ==
    [ op |-> "none", old |-> <<>>, new |-> <<>>, ok |-> TRUE,
      oldUser |-> None, oldBlob |-> None ]

InitUsers == usersLast = NoUsersOp

\* saveUser(email, saltHex) as registration calls it: the email is free
UsersSaveUser(email, salt) ==
    /\ ~userExists(localStorage, email)
    /\ localStorage' = saveUser(localStorage, email, BytesToHex(salt))
    /\ usersLast' = [NoUsersOp EXCEPT !.op = "saveUser", !.new = email]
    /\ UNCHANGED OthersUsers

\* localStorage.setItem(getStorageKey(email), encryptedData) of saveAccounts,
\* called for a user that has a record
UsersSaveAccounts(email, accounts, password) ==
    /\ userExists(localStorage, email)
    /\ \E userData \in { loadUser(localStorage, email) } :
          /\ userData # None
          /\ localStorage' =
                setItem(localStorage, getStorageKey(email),
                        EncryptTable[accounts, deriveKey(password, HexToBytes(userData[1].salt))])
    /\ usersLast' = [NoUsersOp EXCEPT !.op = "saveAccounts", !.new = email]
    /\ UNCHANGED OthersUsers

\* deleteUser(email)
UsersDelete(email) ==
    /\ localStorage' = deleteUser(localStorage, email)
    /\ usersLast' = [NoUsersOp EXCEPT !.op = "deleteUser", !.old = email]
    /\ UNCHANGED OthersUsers

\* updateUserEmail(oldEmail, newEmail)
UsersRename(oldEmail, newEmail) ==
    /\ \E r \in { updateUserEmail(localStorage, oldEmail, newEmail) } :
          /\ localStorage' = r.storage
          /\ usersLast' = [ op |-> "updateUserEmail", old |-> oldEmail, new |-> newEmail,
                            ok |-> r.ok,
                            oldUser |-> loadUser(localStorage, oldEmail),
                            oldBlob |-> localStorage[getStorageKey(oldEmail)] ]
    /\ UNCHANGED OthersUsers

NextUsers ==
    \/ \E email \in UserEmails, salt \in {SaltA, SaltB} : UsersSaveUser(email, salt)
    \/ \E email \in UserEmails, accounts \in UserBlobLists :
          UsersSaveAccounts(email, accounts, PwA)
    \/ \E email \in UserEmails : UsersDelete(email)
    \/ \E oldEmail \in UserEmails, newEmail \in UserEmails : UsersRename(oldEmail, newEmail)

Init ==
    /\ InitB32 /\ InitHotp /\ InitModal /\ InitCrypto /\ InitStore /\ InitTotp /\ InitApp
    /\ InitUsers /\ InitAdmin

SpecB32  == Init /\ [][NextB32]_vars
SpecDecode == Init /\ [][NextDecode]_vars
SpecHotp == Init /\ [][NextHotp]_vars
SpecModal == Init /\ [][NextModal]_vars
SpecEntry == Init /\ [][NextEntry]_vars
SpecImport == Init /\ [][NextImport]_vars
SpecCrypto == Init /\ [][NextCrypto]_vars
SpecEnvelope == Init /\ [][NextEnvelope]_vars
SpecStore == Init /\ [][NextStore]_vars
SpecTotp == Init /\ [][NextTotp]_vars
SpecTotpLive == Init /\ [][NextTotpLive]_vars /\ TotpFairness
SpecUsers == Init /\ [][NextUsers]_vars
SpecAdmin == Init /\ [][NextAdmin]_vars
SpecSalt == Init /\ [][NextSalt]_vars
SpecRegister == Init /\ [][NextRegister]_vars
SpecChange == Init /\ [][NextChange]_vars
SpecAccounts == Init /\ [][NextAccounts]_vars
SpecTamper == Init /\ [][NextTamper]_vars
Spec == Init /\ [][Next]_vars

(***************************************************************************)
(* Claims                                                                  *)
(***************************************************************************)

\* C1: for every byte sequence b (every length, the empty sequence included),
\* base32ToBytes(bytesToBase32(b)) returns exactly b.
C1_RoundTrip ==
    b32Phase = "decoded" => (b32Decoded.ok /\ b32Decoded.val = b32Bytes)

\* C2: scanning a bulk migration URI whose payload holds N >= 1 sub-messages
\* passes exactly N accounts, in payload order, to onAddMultipleAccounts, and
\* each account's Base32 secret decodes back to the sub-message's raw secret
\* bytes; a payload with zero sub-messages fails and adds no account.
C2_Migration ==
    (modalLast.op = "scan" /\ modalLast.scan.kind = "migration" /\ modalLast.scan.data = "ok") =>
        LET otp == modalLast.scan.otpParameters
        IN  IF Len(otp) >= 1
            THEN /\ modalLast.called = "multi"
                 /\ Len(modalLast.arg) = Len(otp)
                 /\ \A i \in 1..Len(otp) :
                       /\ modalLast.arg[i].name = otp[i].name
                       /\ base32ToBytes(modalLast.arg[i].secret) = Ok(otp[i].secret)
            ELSE /\ modalLast.called = "none"
                 /\ modalLast.arg = <<>>
                 /\ modalLast.error # ""

\* C9: in the single-account enrollment flow, onAddAccount is invoked for the
\* pending account if and only if the submitted code equals
\* generateHOTP(secret, c-1), generateHOTP(secret, c) or generateHOTP(secret, c+1)
\* with c = floor(now/30); on a mismatch or a secret that fails to decode no
\* account is added.
C9_Verification ==
    modalLast.op = "verify" =>
        LET acct == modalLast.pending[1]
            c    == modalLast.now \div 30
            decodes == generateHOTP(acct.secret, c).ok
            match == \E k \in {c - 1, c, c + 1} :
                        /\ generateHOTP(acct.secret, k).ok
                        /\ generateHOTP(acct.secret, k).val = modalLast.code
        IN  /\ (modalLast.called = "single") <=> (decodes /\ match)
            /\ modalLast.called = "single" => modalLast.arg = <<acct>>
            /\ modalLast.called # "single" =>
                    (modalLast.called = "none" /\ modalLast.arg = <<>> /\ modalLast.error # "")

\* C9 witness: a code of the previous counter (clock skew) is accepted for an
\* account that came from an otpauth URI
C9_Witness ==
    /\ modalLast.op = "verify"
    /\ modalLast.called = "single"
    /\ modalLast.pending[1].username = None
    /\ modalLast.code = generateHOTP(modalLast.pending[1].secret, (modalLast.now \div 30) - 1).val
    /\ modalLast.code # generateHOTP(modalLast.pending[1].secret, modalLast.now \div 30).val

\* C4: for every password p, salt s and plaintext m, decrypt(encrypt(m, k), k)
\* with k = deriveKey(p, s) returns m.
C4_RoundTrip ==
    (cryptoPhase = "decrypted" /\ cryptoTry = cryptoPassword) =>
        cryptoOut = Ok(cryptoPlain)

\* C5: decrypting an envelope with a key derived from a password different
\* from the one used to encrypt it (same salt) always fails; decrypt never
\* returns a plaintext.
C5_WrongPassword ==
    (cryptoPhase = "decrypted" /\ cryptoTry # cryptoPassword) => ~cryptoOut.ok

\* C5 witness: a non-empty plaintext, a wrong password, the rejection of
\* crypto.subtle.decrypt
C5_Witness ==
    /\ cryptoPhase = "decrypted"
    /\ cryptoTry # cryptoPassword
    /\ cryptoPlain # <<>>
    /\ cryptoOut = Err("OperationError")

\* C6: loadAccounts(key, email) for an email with no stored account blob
\* returns the empty list without raising an error, whatever the key.
C6_NoBlob ==
    (storeLast.op = "load" /\ ~storeLast.hadItem) => storeLast.result = Ok(<<>>)

\* C6 witness: a load for an email without a blob while the other user has one
C6_Witness ==
    /\ storeLast.op = "load"
    /\ ~storeLast.hadItem
    /\ storeLast.result = Ok(<<>>)
    /\ \E e \in EmailSamples : localStorage[getStorageKey(e)] # None

\* C7: once saveAccounts(L, k, e) has completed, loadAccounts(k, e) returns
\* exactly L, same records in the same order, whatever blob was stored for e
\* before: the new blob replaces the old one and nothing is merged.
C7_SaveLoad ==
    (/\ storeLast.op = "load"
     /\ storeWritten[storeLast.email] # None
     /\ storeWritten[storeLast.email][1].password = storeLast.password)
        => storeLast.result = Ok(storeWritten[storeLast.email][1].accounts)

\* C7 witness: a two-account list with quotes, backslashes and optional
\* fields is read back
C7_Witness ==
    /\ storeLast.op = "load"
    /\ storeWritten[storeLast.email] # None
    /\ storeLast.result = Ok(<< Account2, Account1 >>)

\* C3: for every 20-byte digest the truncation reads only the indices
\* offset..offset+3 with offset = digest[19] & 0x0F, all within 0..19; the
\* truncated value is in 0..2^31-1; the code is exactly 6 decimal digits and
\* equals value mod 1,000,000 left-padded with zeros.
C3_Truncation ==
    hotpOut.ok =>
        /\ hotpOut.offset = hmacBytes[20] % 16
        /\ hotpOut.reads = hotpOut.offset .. (hotpOut.offset + 3)
        /\ hotpOut.reads \subseteq 0..19
        /\ hotpOut.binary \in 0..2147483647
        /\ Len(hotpOut.code) = 6
        /\ \A i \in 1..6 : IsDigit(hotpOut.code[i])
        /\ DecimalValue(hotpOut.code) = hotpOut.binary % 1000000

\* C3 witness: a digest whose offset is 15 (the window ends at index 18) and
\* whose code needs zero padding
C3_Witness ==
    /\ hotpOut.ok
    /\ hotpOut.offset = 15
    /\ hotpOut.code[1] = "0"
    /\ hotpOut.binary > 0


\* C8: every timeLeft value the hook returns to its caller is in 1..30 and is
\* 30 - (now mod 30) for the clock at that render: at mount, on every tick
\* and after a secret change
C8_TimeLeft ==
    totpReported # None =>
        /\ totpReported[1].timeLeft \in 1..period
        /\ totpReported[1].timeLeft = period - (totpReported[1].now % period)

\* C10: right after handleChangePassword succeeded for the logged-in user,
\* the stored blob decrypts under the new key to the in-memory account list
\* and not under the old key, the salt of the user record is the one the
\* keys were derived with, and the session master key is the new key
C10_ChangePassword ==
    (/\ appLast.op = "changePassword"
     /\ appLast.ok
     /\ appCurrentUser = Some(appLast.task.email))
        => /\ loadAccounts(localStorage, appLast.task.key2, appLast.task.email) = Ok(appAccounts)
           /\ ~loadAccounts(localStorage, appLast.task.key, appLast.task.email).ok
           /\ loadUser(localStorage, appLast.task.email)
                = Some([salt |-> BytesToHex(appLast.task.key2.salt), email |-> appLast.task.email])
           /\ appMasterKey = Some(appLast.task.key2)

\* C11: deleteUser and updateUserEmail keep the two namespaces consistent (an
\* account blob exists under an email only if a user record exists there), and
\* an updateUserEmail(old, new) that returns true leaves under new the user
\* record with email = new and the salt old had, and the ciphertext old had,
\* and leaves nothing under old.
NamespacesConsistent ==
    \A e \in UserEmails :
        localStorage[getStorageKey(e)] # None => userExists(localStorage, e)

C11_Namespaces ==
    /\ NamespacesConsistent
    /\ (usersLast.op = "updateUserEmail" /\ usersLast.ok) =>
          /\ usersLast.oldUser # None
          /\ loadUser(localStorage, usersLast.new)
                = Some([salt |-> usersLast.oldUser[1].salt, email |-> usersLast.new])
          /\ localStorage[getStorageKey(usersLast.new)] = usersLast.oldBlob
          /\ localStorage[getUserKey(usersLast.old)] = None
          /\ localStorage[getStorageKey(usersLast.old)] = None

\* C12: after a confirmed admin password reset has written, the user record
\* still holds the salt the reset read, the blob decrypts under
\* deriveKey(newPassword, salt) to the empty list (a login with the new
\* password yields the empty list), and a login with any other password,
\* the old one included, fails.
C12_AdminReset ==
    appLast.op = "reset" =>
        /\ loadUser(localStorage, appLast.task.email)
              = Some([ salt |-> BytesToHex(appLast.task.key.salt),
                       email |-> appLast.task.email ])
        /\ loadAccounts(localStorage, appLast.task.key, appLast.task.email) = Ok(<<>>)
        /\ \A p \in MasterPasswords \cup {AdminPassword} :
              deriveKey(p, appLast.task.key.salt) # appLast.task.key
                => ~loadAccounts(localStorage, deriveKey(p, appLast.task.key.salt),
                                 appLast.task.email).ok

\* C13: from registration until deletion the stored salt of a user never
\* changes: no step writes another salt into an existing user record, a
\* rename moves the salt unchanged to the new email, and every handler that
\* derives a key (login, admin login, password change, admin reset) derives it
\* from the salt stored at that moment.
SaltKept ==
    /\ \A e \in StorageEmails :
          (loadUser(localStorage, e) # None /\ loadUser(localStorage', e) # None)
              => loadUser(localStorage', e)[1].salt = loadUser(localStorage, e)[1].salt
    /\ \A e \in StorageEmails : \A e2 \in StorageEmails \ {e} :
          (/\ loadUser(localStorage, e) # None /\ loadUser(localStorage', e) = None
           /\ loadUser(localStorage, e2) = None /\ loadUser(localStorage', e2) # None)
              => loadUser(localStorage', e2)[1].salt = loadUser(localStorage, e)[1].salt
    /\ \A t \in appTasks' \ appTasks :
          t.kind \in {"login", "adminLogin", "change", "reset"}
              => /\ loadUser(localStorage', t.email) # None
                 /\ BytesToHex(t.key.salt) = loadUser(localStorage', t.email)[1].salt
                 /\ t.kind = "change"
                      => BytesToHex(t.key2.salt) = loadUser(localStorage', t.email)[1].salt

C13_SaltKept == [][SaltKept]_vars

C13_Witness ==
    /\ appLast.op = "reset"
    /\ appLast.task.email = EmailB
    /\ loadUser(localStorage, EmailB) # None
    /\ loadUser(localStorage, EmailB)[1].salt = SaltHexB

\* C14: decrypt fails with "Invalid encrypted data format", without calling
\* the cipher, whenever its input has no ':', or one of the two fields is
\* empty, or one of the two fields is not valid hex (a character that is not
\* a hex digit, or an odd length).
IsHexText(t) == Len(t) % 2 = 0 /\ \A i \in 1..Len(t) : IsHexDigit(t[i])

MalformedEnvelope(t) ==
    \/ FirstIndex(t, ":") = 0
    \/ SplitFirstTwo(t).ivHex[1] = <<>>
    \/ SplitFirstTwo(t).encryptedHex[1] = <<>>
    \/ ~IsHexText(SplitFirstTwo(t).ivHex[1])
    \/ ~IsHexText(SplitFirstTwo(t).encryptedHex[1])

C14_InvalidFormat ==
    (cryptoPhase = "checked" /\ MalformedEnvelope(cryptoEnvelope))
        => cryptoOut = Err("Invalid encrypted data format")

\* C15: for a single-account otpauth://totp/ URI, a missing or empty secret
\* fails and leaves no pending account; otherwise the pending account's issuer
\* is the issuer query parameter when present, else the label part before the
\* first ':', else the account name, and its name is the label part after the
\* first ':' or the whole label when it has no ':' (values trimmed).  A
\* parameter that is present but blank may count as present or as absent.
LabelBeforeColon(label) == Trim(SubSeq(label, 1, FirstIndex(label, ":") - 1))

ExpectedName(label) ==
    IF FirstIndex(label, ":") > 0
    THEN Trim(SubSeq(label, FirstIndex(label, ":") + 1, Len(label)))
    ELSE Trim(label)

LabelOrName(label) ==
    IF FirstIndex(label, ":") > 0 /\ LabelBeforeColon(label) # <<>>
    THEN LabelBeforeColon(label) ELSE ExpectedName(label)

ExpectedIssuers(label, issuerParam) ==
    IF issuerParam = None \/ issuerParam[1] = <<>> THEN { LabelOrName(label) }
    ELSE IF Trim(issuerParam[1]) # <<>> THEN { Trim(issuerParam[1]) }
    ELSE { <<>>, LabelOrName(label) }

C15_TotpScan ==
    (/\ modalLast.op = "scan" /\ modalLast.scan.kind = "totp"
     /\ modalLast.scan.hasQuery /\ modalLast.scan.labelOk)
        => IF modalLast.scan.secret = None \/ modalLast.scan.secret[1] = <<>>
           THEN accountToVerify = None /\ modalError # ""
           ELSE /\ accountToVerify # None
                /\ accountToVerify[1].name = ExpectedName(modalLast.scan.label)
                /\ accountToVerify[1].issuer
                      \in ExpectedIssuers(modalLast.scan.label, modalLast.scan.issuer)

\* an entry that lacks name or secret: no object, or one of the two members
\* absent or empty
Lacking(item) ==
    \/ ~item.object
    \/ item.name = None \/ item.name[1] = <<>>
    \/ item.secret = None \/ item.secret[1] = <<>>

\* C16 as stated: in a bulk JSON import every array entry that lacks name or
\* secret is rejected with an error that carries that entry's index, and an
\* entry that has both is not rejected: it is among the accounts handed over.
C16_EveryEntry ==
    (modalLast.op = "import" /\ modalLast.file.kind = "array") =>
        \A i \in 1..Len(modalLast.file.items) :
            IF Lacking(modalLast.file.items[i])
            THEN modalLast.error = "invalid entry" /\ modalLast.index = i - 1
            ELSE /\ modalLast.called = "multi"
                 /\ i <= Len(modalLast.arg)
                 /\ modalLast.arg[i].name = modalLast.file.items[i].name[1]

\* C16 amended: a bulk JSON import with an entry that lacks name or secret is
\* rejected as a whole, with an error that carries the index of the first
\* such entry, and hands over no account; an array whose entries all have
\* both hands over every entry, in order (an empty array is rejected).
C16_FirstInvalid ==
    (modalLast.op = "import" /\ modalLast.file.kind = "array") =>
        IF \E i \in 1..Len(modalLast.file.items) : Lacking(modalLast.file.items[i])
        THEN /\ modalLast.error = "invalid entry"
             /\ modalLast.called = "none"
             /\ modalLast.index + 1 \in 1..Len(modalLast.file.items)
             /\ Lacking(modalLast.file.items[modalLast.index + 1])
             /\ \A j \in 1..modalLast.index : ~Lacking(modalLast.file.items[j])
        ELSE IF modalLast.file.items = <<>>
        THEN modalLast.error = "no account in file" /\ modalLast.called = "none"
        ELSE /\ modalLast.called = "multi"
             /\ Len(modalLast.arg) = Len(modalLast.file.items)
             /\ \A i \in 1..Len(modalLast.arg) :
                   /\ modalLast.arg[i].name = modalLast.file.items[i].name[1]
                   /\ modalLast.arg[i].secret = modalLast.file.items[i].secret[1]

C16_Witness ==
    /\ modalLast.op = "import"
    /\ Len(modalLast.file.items) = 3
    /\ ~Lacking(modalLast.file.items[1])
    /\ Lacking(modalLast.file.items[2])
    /\ Lacking(modalLast.file.items[3])
    /\ modalLast.index = 1

\* the spellings of the reserved email the forms are given
ReservedSpellings == { AdminEmail, AdminEmailCased }

\* a submission of the registration form that must be turned down
RefusedRegistration(email) ==
    email \in ReservedSpellings \/ userExists(localStorage, email)

\* C17: registration with the reserved administrator email, in any letter
\* casing, or with an email that already has a user record is rejected: the
\* step writes nothing to storage (no user record, no account blob, the admin
\* record as it was), starts no save and establishes no session.
C17_Step ==
    \A in \in AdminRegisterInputs :
        (RefusedRegistration(in[1]) /\ Register(in[1], in[2], in[3], in[4])) =>
            /\ appLast'.op = "register" /\ ~appLast'.ok
            /\ localStorage' = localStorage
            /\ appTasks' = appTasks
            /\ appCurrentUser' = None
            /\ appMasterKey' = appMasterKey
            /\ appAccounts' = appAccounts

C17_RegistrationRefused == [][C17_Step]_vars

C17_Witness ==
    /\ appLast.op = "register"
    /\ ~appLast.ok
    /\ appLast.task.email = AdminEmailCased
    /\ userExists(localStorage, AdminEmail)
    /\ userExists(localStorage, EmailA)
    /\ appCurrentUser = None

C17_WitnessInUse ==
    /\ appLast.op = "register"
    /\ ~appLast.ok
    /\ appError = "in use"
    /\ userExists(localStorage, appLast.task.email)

\* C18: for an existing user, a login that fails because the password is
\* wrong and a login that fails because the stored blob is corrupted or
\* tampered end alike: the same error message, no session, the account list
\* and the key of the screen as they were, and storage unchanged, whatever
\* error decryption gave.
C18_Step ==
    \A t \in appTasks :
        (t.kind = "loaded" /\ ~t.accounts.ok /\ LoginFinish(t)) =>
            /\ appError' = "wrong password or corrupt data"
            /\ appCurrentUser' = None
            /\ appMasterKey' = appMasterKey
            /\ appAccounts' = appAccounts
            /\ localStorage' = localStorage
            /\ appTasks' = appTasks \ {t}

C18_WitnessWrongPassword ==
    /\ appLast.op = "loggedIn"
    /\ ~appLast.ok
    /\ appLast.task.accounts.err = "OperationError"
    /\ appLast.task.email = EmailA
    /\ appLast.task.key = deriveKey(PwB, SaltA)
    /\ localStorage[getStorageKey(EmailA)] = Some(saveAccountsText(<<>>, deriveKey(PwA, SaltA), IvA))

\* a login with the registered password failed on a damaged tag
C18_WitnessTag ==
    /\ appLast.op = "loggedIn"
    /\ ~appLast.ok
    /\ appLast.task.accounts.err = "OperationError"
    /\ appLast.task.email = EmailA
    /\ appLast.task.key = deriveKey(PwA, SaltA)

\* C19: every account the modal hands to the session's account list, by any
\* entry path (manual entry, single-account QR, bulk migration QR, JSON
\* import), has a secret that base32ToBytes accepts.
C19_ValidSecrets ==
    modalLast.called # "none" =>
        \A i \in 1..Len(modalLast.arg) : base32ToBytes(modalLast.arg[i].secret).ok

\* the same for the paths that verify a code before the account is handed over
C19_VerifiedPaths ==
    modalLast.called = "single" =>
        \A i \in 1..Len(modalLast.arg) : base32ToBytes(modalLast.arg[i].secret).ok

\* a text over the Base32 alphabet A-Z, 2-7
OverAlphabet(t) == \A i \in 1..Len(t) : \E j \in 1..32 : base32Chars[j] = t[i]

\* k padding characters
Padding(k) == [i \in 1..k |-> "="]

\* the text without the '=' at its end
Unpadded(t) ==
    SubSeq(t, 1, Len(t) - Cardinality({ k \in 1..Len(t) : \A i \in k..Len(t) : t[i] = "=" }))

\* C20: base32ToBytes is case-insensitive and tolerant of trailing '=': for a
\* text t over the alphabet, t, its lower-cased form and t followed by any
\* number of '=' decode to the same bytes, floor(5n/8) of them for n symbols
\* (n >= 0); and the decoding fails with the invalid-character error when a
\* character left after the trailing '=' is outside A-Z, 2-7 in both cases.
C20_Decode ==
    b32Phase = "decoded" =>
        /\ OverAlphabet(b32Text) =>
              /\ b32Decoded.ok
              /\ Len(b32Decoded.val) = (5 * Len(b32Text)) \div 8
              /\ base32ToBytes(toLowerCase(b32Text)) = b32Decoded
              /\ \A k \in 1..MaxPad : base32ToBytes(b32Text \o Padding(k)) = b32Decoded
        /\ ~OverAlphabet(Unpadded([i \in 1..Len(b32Text) |-> toUpperCase(b32Text[i])]))
              => b32Decoded = Err("Invalid base32 character")

\* the same for texts of at least one symbol
C20_OneSymbol ==
    (b32Phase = "decoded" /\ Unpadded(b32Text) # <<>>) => C20_Decode

\* without a symbol the decoding fails, padded or not
C20_NoSymbol ==
    (b32Phase = "decoded" /\ Unpadded(b32Text) = <<>>) => b32Decoded = Err("TypeError")

\* C21: on every tick of the timer of useTotp at which floor(now / 30)
\* differs from the counter recorded at the previous tick or at the mount, a
\* recomputation of the code for the timer's secret is started, however many
\* seconds passed since; on a tick with the counter unchanged none is started.
C21_Step ==
    (totpLast'.op = "tick" /\ totpTimer # None /\ totpTimer' # None
        /\ totpTimer'[1].last # totpTimer[1].last /\ totpPhase' = totpPhase) =>
        IF totpCounter # Some(totpNow \div period)
        THEN /\ totpLast'.started
             /\ [secret |-> totpTimer[1].secret, counter |-> totpNow \div period] \in totpUpdates'
        ELSE /\ ~totpLast'.started
             /\ totpUpdates' = totpUpdates

C21_TickRecomputes == [][C21_Step]_vars

\* a tick that came three seconds late, after the boundary, started a recomputation
C21_Witness ==
    /\ totpLast.op = "tick"
    /\ totpLast.started
    /\ totpNow % period >= 2
    /\ totpTimer # None
    /\ [secret |-> totpTimer[1].secret, counter |-> totpNow \div period] \in totpUpdates

\* C22: once an effect instance of useTotp is torn down (unmount, or another
\* secret), no tick of its timer runs and it updates no state: a computation
\* started for a previous secret that settles afterwards leaves the code and
\* the value the hook returns as they were.
C22_Step ==
    /\ \A u \in totpUpdates :
          (TotpUpdateSettle(u) /\ (totpTimer = None \/ totpTimer[1].secret # u.secret)) =>
              /\ totpCode' = totpCode
              /\ totpReported' = totpReported
    /\ (totpLast'.op = "tick" /\ totpLast' # totpLast) =>
          /\ totpTimer # None
          /\ totpPhase = "mounted" => totpSecret = Some(totpTimer[1].secret)

C22_NoUpdateAfterTeardown == [][C22_Step]_vars

\* the timer part alone: no tick without a live interval, and the interval
\* of a mounted hook is the one of its secret
C22_TimerCleared ==
    /\ totpPhase \in {"init", "unmounted"} => totpTimer = None
    /\ totpPhase = "mounted" => totpTimer # None /\ totpSecret = Some(totpTimer[1].secret)

\* the forms of AuthScreen can be used: the reset link at any moment, the
\* submit button unless a submission is pending
AuthScreenShown == appMounted /\ appCurrentUser = None /\ ~adminPanelOpen

\* C23: registration and the administrator bootstrap are never seen partially
\* applied: in every state in which another operation (login, admin login,
\* forgot-password, a second registration) can run, an email with a user
\* record has an account blob too.
C23_NoPartialUser ==
    AuthScreenShown =>
        \A e \in StorageEmails :
            userExists(localStorage, e) => localStorage[getStorageKey(e)] # None

\* the same once no registration and no bootstrap is suspended
C23_AtRest ==
    (AuthScreenShown /\ \A t \in appTasks : t.kind \notin {"admin", "register"}) =>
        \A e \in StorageEmails :
            userExists(localStorage, e) => localStorage[getStorageKey(e)] # None

\* no save of the account list is awaiting encrypt
NoSaveInFlight == \A t \in appTasks : t.kind # "persist"

\* C24: when changes of the account list (addAccount, addMultipleAccounts,
\* deleteAccount) of a user overlap, the save invoked last wins: once every
\* save in flight has completed the stored blob decrypts to the list handed
\* to that save, which is the account list of the session.
C24_LastSaveWins ==
    (appCurrentUser # None /\ appMasterKey # None /\ NoSaveInFlight) =>
        loadAccounts(localStorage, appMasterKey[1], appCurrentUser[1]) = Ok(appAccounts)

\* the same for saves that do not overlap
C24_OneAtATime ==
    (appCurrentUser # None /\ appMasterKey # None /\ NoSaveInFlight
        /\ appLast.op = "persisted" /\ appLast.task.accounts = appAccounts) =>
        loadAccounts(localStorage, appMasterKey[1], appCurrentUser[1]) = Ok(appAccounts)

\* the stored blob of a user is a text encrypted under key
EncryptedUnder(storage, email, key) ==
    /\ storage[getStorageKey(email)] # None
    /\ decrypt(storage[getStorageKey(email)][1], key).ok

\* C25: handleChangePassword goes on to the new key only if the current
\* password it is given is the one the stored blob is encrypted under; when
\* it is not, the call fails and the stored blob, the user record, the master
\* key and the account list of the session stay as they were.
C25_Step ==
    \A t \in appTasks :
        (t.kind = "change" /\ ChangePasswordVerify(t)
            /\ ~EncryptedUnder(localStorage, t.email, t.key)) =>
                /\ appLast' = Step("changePassword", FALSE, t)
                /\ appTasks' = appTasks \ {t}
                /\ localStorage' = localStorage
                /\ appMasterKey' = appMasterKey
                /\ appAccounts' = appAccounts

C25_CurrentPasswordChecked == [][C25_Step]_vars

\* the same when the user has a blob
C25_StepWithBlob ==
    \A t \in appTasks :
        (t.kind = "change" /\ ChangePasswordVerify(t)
            /\ localStorage[getStorageKey(t.email)] # None
            /\ ~EncryptedUnder(localStorage, t.email, t.key)) =>
                /\ appLast' = Step("changePassword", FALSE, t)
                /\ appTasks' = appTasks \ {t}
                /\ localStorage' = localStorage
                /\ appMasterKey' = appMasterKey
                /\ appAccounts' = appAccounts

C25_WithBlob == [][C25_StepWithBlob]_vars

\* the passwords an email can have been given: the administrator's by
\* ensureAdminExists, a user's at registration or by a reset
PasswordsGiven(email) ==
    IF email = AdminEmail THEN {AdminPassword} ELSE MasterPasswords

KeysGiven(email) == { deriveKey(p, salt) : p \in PasswordsGiven(email), salt \in {SaltA, SaltB} }

\* C26: handleLogin establishes a session for an email, and handleAdminLogin
\* opens the admin panel, only with a password the email was given (at the
\* bootstrap, at registration, by a change or a reset); a wrong password sets
\* neither currentUser and masterKey nor isAdminPanelOpen.
C26_PasswordNeeded ==
    /\ (appLast.op = "loggedIn" /\ appLast.ok) => appLast.task.key \in KeysGiven(appLast.task.email)
    /\ (appLast.op = "adminLoggedIn" /\ appLast.ok) => appLast.task.key \in KeysGiven(AdminEmail)
    /\ (appLast.op \in {"loggedIn", "adminLoggedIn"} /\ ~appLast.ok) =>
            appCurrentUser = None /\ ~adminPanelOpen

\* the same for logins that found a blob when they read the item
C26_Step ==
    \A t \in appTasks :
        /\ (LoginLoad(t) /\ localStorage[getStorageKey(t.email)] # None
                /\ ~EncryptedUnder(localStorage, t.email, t.key)) =>
                    \A t2 \in appTasks' \ appTasks : ~t2.accounts.ok
        /\ (AdminLoginLoad(t) /\ localStorage[getStorageKey(t.email)] # None
                /\ ~EncryptedUnder(localStorage, t.email, t.key)) =>
                    \A t2 \in appTasks' \ appTasks : ~t2.accounts.ok

C26_WithBlob == [][C26_Step]_vars

\* C27: the session state of App: currentUser is null exactly when masterKey
\* is null, and while currentUser is null the account list is empty.
C27_SessionState ==
    /\ (appCurrentUser = None) <=> (appMasterKey = None)
    /\ appCurrentUser = None => appAccounts = <<>>

\* C27, second part: logout changes nothing in storage.
C27_LogoutStep == Logout => localStorage' = localStorage

C27_LogoutKeepsStorage == [][C27_LogoutStep]_vars

\* C28: after any sequence of addAccount, addMultipleAccounts and
\* deleteAccount calls the accounts of the session have pairwise distinct ids.
C28_DistinctIds ==
    \A i \in 1..Len(appAccounts) : \A j \in 1..Len(appAccounts) :
        i # j => appAccounts[i].id # appAccounts[j].id

\* C28, the consequence: deleteAccount(id) removes exactly one account and
\* leaves every other account in the list, in its order.
C28_DeleteStep ==
    \A id \in SessionIds :
        DeleteAccount(id) =>
            \E k \in 1..Len(appAccounts) :
                /\ appAccounts[k].id = id
                /\ appAccounts' = SubSeq(appAccounts, 1, k - 1)
                                    \o SubSeq(appAccounts, k + 1, Len(appAccounts))

C28_DeleteOne == [][C28_DeleteStep]_vars

\* deleteAccount on a list of distinct ids
C28_DeleteStepDistinct ==
    \A id \in SessionIds :
        (C28_DistinctIds /\ DeleteAccount(id)) =>
            \E k \in 1..Len(appAccounts) :
                /\ appAccounts[k].id = id
                /\ appAccounts' = SubSeq(appAccounts, 1, k - 1)
                                    \o SubSeq(appAccounts, k + 1, Len(appAccounts))

C28_DeleteOneOfDistinct == [][C28_DeleteStepDistinct]_vars

\* C29: an administrator edit (EditUserModal.handleSubmit) that ends with an
\* error, or returns without a success message, has changed nothing in
\* storage: the user record and the account blob are under the original email
\* with their content.
C29_Step ==
    \A in \in EditInputs :
        (EditSubmit(in[1], in[2], in[3]) /\ appLast'.op = "editUser" /\ ~appLast'.ok) =>
            localStorage' = localStorage

C29_FailedEditKeepsStorage == [][C29_Step]_vars

\* the same for the edits that leave the email as it is
C29_StepSameEmail ==
    \A in \in EditInputs :
        (adminSelected # None /\ in[1] = adminSelected[1].email
            /\ EditSubmit(in[1], in[2], in[3]) /\ appLast'.op = "editUser" /\ ~appLast'.ok) =>
            localStorage' = localStorage

C29_SameEmail == [][C29_StepSameEmail]_vars

\* the hook shows the code of the counter the clock is in
CodeCurrent ==
    totpPhase = "mounted" => totpCode = UpdateCode(totpSecret[1], TotpCounterOf(totpNow))

\* C30: while a useTotp instance stays mounted with a valid secret and ticks
\* and computations are fairly scheduled, after a boundary crossing the code
\* shown eventually is the TOTP of the current counter and stays so until
\* the next crossing: whenever the clock stays within one period from some
\* moment on, the code of that period is shown from some moment on.
C30_CodeCatchesUp ==
    \A c \in 0..TotpCounterOf(MaxNow + 1) :
        <>[](TotpCounterOf(totpNow) = c) => <>[]CodeCurrent

\* C30, the last part: a computation for an older counter that settles late
\* does not replace the code of a newer counter.
C30_Step ==
    \A u \in totpUpdates :
        (TotpUpdateSettle(u) /\ totpCounter # None /\ u.counter < totpCounter[1]
            /\ totpCode = UpdateCode(u.secret, totpCounter[1])) =>
                totpCode' = totpCode

C30_NoLateOverwrite == [][C30_Step]_vars

====
